---- MODULE Spec2Model ----
(***************************************************************************)
(* Verification model of the landslide remote-sensing scripts.             *)
(*                                                                         *)
(* Part 1: the progressive composite builders of                           *)
(*         src/data_importer/get_newest_data.py                            *)
(*         (get_most_recent_sentinel2_auckland_ee,                         *)
(*          get_most_recent_sentinel1_auckland_ee, check_coverage).        *)
(* Part 2: the parallel batch of src/hdf5_processing/test.py and the       *)
(*         sequential per-patch loop of src/data_importer/fill_patches.py. *)
(* Part 3: check_coverage on its own, the single-image variants of        *)
(*         src/get_newest_data.py, the HDF5 writers and the cleaning       *)
(*         reader, a Sentinel-2 request seen from its caller, and          *)
(*         create_training_data.                                           *)
(* Part 4: split_tiff of split_patches.py, constrain_bbox_size,            *)
(*         the mask-then-image export of create_training_data_2.py, the    *)
(*         login and account callbacks of src/gui, and the annotation      *)
(*         files written by save_annotations and read by load_annotations. *)
(*                                                                         *)
(* An image is a tuple over the pixels 1..NPix; entry 0 is a masked pixel, *)
(* entry k > 0 is a valid pixel whose value comes from catalog tile k.     *)
(* The empty tuple stands for Python's None.                               *)
(***************************************************************************)
EXTENDS Integers, Sequences, FiniteSets, TLC

\* ---------------------------------------------------------------- bounds
NPix == 2
MaxTiles == 2
MaxTime == 3
SlotsPerDay == 2
MaxBudget == 2
MaxFeatures == 3
MaxWorkers == 2
MaxAreaError == 1
MaxBands == 2
MaxKids == 2
MaxEvents == 2
MaxSide == 5
Mantissa == 3
MaxCoord == 64
MaxPatches == 2
MaxLandslides == 2

Pix == 1..NPix
Times == 0..MaxTime

\* ---------------------------------------------- program constants
\* ee.Image.pixelArea() sampled at scale=10: one pixel is 10 m x 10 m.
PixelArea == 100
\* cloud_cover_max, default 30.0
CloudCoverMax == 30
\* create_training_data processes the row with this index label only
OnlyIdx == 6

None == << >>

VARIABLES
    \* the frozen catalog snapshot and the wall clock
    catalog, today,
    \* arguments of the builder call
    sensor, geometry, days_back, require_full_coverage, coverage_threshold,
    budget,
    \* locals of the builder
    pc, cands, dates_list, i, composite, dates_used, image_ids_used,
    tiles_used, images_used, coverage,
    \* what the call returned
    result_image, result_meta,
    \* observation: the "Cumulative coverage" lines printed so far and the
    \* composite as it was before the last layering step
    cov_log, prev_composite,
    \* a repeated call: which call this is, and the clock, the results and
    \* the groups of the first one
    call, first_today, first_image, first_meta, first_dates

bvars == <<catalog, today, sensor, geometry, days_back, require_full_coverage,
           coverage_threshold, budget, pc, cands, dates_list, i, composite,
           dates_used, image_ids_used, tiles_used, images_used, coverage,
           result_image, result_meta, cov_log, prev_composite,
           call, first_today, first_image, first_meta, first_dates>>

VARIABLES
    \* which script runs: "builder", "batch" (batch_process_patches) or
    \* "sequential" (extract_sentinel_patches)
    prog,
    \* batch_process_patches: len(features), max_workers, position of the
    \* main thread, next feature to submit, completed and failed counters
    n_features, max_workers, bpc, next_submit, completed, failed,
    \* ThreadPoolExecutor: the work queue, the idle semaphore, the threads
    \* ("none" = not spawned, "wait" = blocked on the queue, else the stage of
    \* process_single_patch it is in), the feature a thread works on
    work_queue, idle_sem, wstate, witem,
    \* futures: "pending", "running", "ok" (returned a tuple with success
    \* True), "fail" (tuple with success False), "exc" (raised)
    fut, collected,
    \* the (idx, success) tuples the collector received, in order (line 210)
    results_log,
    \* image_{index}.h5 files written
    h5_files,
    \* extract_sentinel_patches: rows of the grid, loop position, rows done,
    \* metadata_list, patch files on disk, rows whose try block raised
    n_rows, spc, row_i, metadata_list, patch_files, rows_raised

pvars == <<prog, n_features, max_workers, bpc, next_submit, completed, failed,
           work_queue, idle_sem, wstate, witem, fut, collected, results_log,
           h5_files, n_rows, spc, row_i, metadata_list, patch_files, rows_raised>>

VARIABLES
    \* check_coverage called on its own: position, the image and geometry
    \* arguments, the deviation of geometry.area(maxError=10) from the pixel
    \* sum, the returned fraction and the value the caller records
    cc_pc, cc_image, cc_geometry, cc_err, cc_coverage, cc_reported

cvars == <<cc_pc, cc_image, cc_geometry, cc_err, cc_coverage, cc_reported>>

VARIABLES
    \* the single-image variant of src/get_newest_data.py called with the
    \* arguments of the builder call: position and returned image
    simple_pc, simple_image

mvars == <<simple_pc, simple_image>>

VARIABLES
    \* which file script runs: "full" (ee_images_to_hdf5), "optimized"
    \* (ee_images_to_hdf5_optimized), "clean" (process_pair_improved)
    script,
    \* the writers: position, bands of the two input images, requested
    \* bands (empty = None), selected band names, download requests made,
    \* the HDF5 file written (<< >> = no file), the exception raised
    hw_pc, s1_avail, s2_avail, s1_bands, s2_bands, s1_band_names,
    s2_band_names, downloads, h5_out, hw_error,
    \* process_pair_improved: the image and mask files, position, the
    \* cleaned files written, the exception raised
    img_h5, mask_h5, pp_pc, out_files, pp_error

wvars == <<hw_pc, s1_avail, s2_avail, s1_bands, s2_bands, s1_band_names,
           s2_band_names, downloads, h5_out, hw_error>>
qvars == <<img_h5, mask_h5, pp_pc, out_files, pp_error>>
hvars == <<script, wvars, qvars>>

VARIABLES
    \* a Sentinel-2 request seen from its caller: which caller, the number
    \* of candidate dates, the budget, the pass of the loop at which the
    \* threshold is reached (0 = never), position, catalog calls issued so
    \* far, the call that failed (0 = none), the exception in flight, and
    \* what the caller ends with
    q_caller, q_dates, q_budget, q_reach, q_pc, q_calls, q_fail_at, q_exc,
    q_result

kvars == <<q_caller, q_dates, q_budget, q_reach, q_pc, q_calls, q_fail_at,
           q_exc, q_result>>

VARIABLES
    \* create_training_data: the rows of bbox_gdf (what the catalog holds
    \* for each event), position, the row being processed, the values
    \* get_s2_image and get_s1_image returned, the value pull_sentinel_data
    \* returned, the events reported as without data, the export tasks
    \* started, the exception that ended the script
    t_rows, t_pc, t_k, t_s2, t_s1, t_images, t_reported, t_tasks, t_error

tvars == <<t_rows, t_pc, t_k, t_s2, t_s1, t_images, t_reported, t_tasks,
           t_error>>

VARIABLES
    \* split_tiff: position, width and height of the input image, the
    \* target_patch_size and max_patch_size arguments, the result of
    \* get_optimal_patch_size, the loop indices, and the files written, in
    \* order (output_paths)
    sp_pc, sp_width, sp_height, target_patch_size, max_patch_size,
    sp_config, sp_row, sp_col, output_paths

splitvars == <<sp_pc, sp_width, sp_height, target_patch_size, max_patch_size,
               sp_config, sp_row, sp_col, output_paths>>

VARIABLES
    \* constrain_bbox_size applied once and then to its own result:
    \* position, the bounds of bbox_geom, the min_size and max_size
    \* arguments, the bounds of the box returned by the first and by the
    \* second application
    bx_pc, bbox_geom, min_size, max_size, bx_once, bx_twice

boxvars == <<bx_pc, bbox_geom, min_size, max_size, bx_once, bx_twice>>

VARIABLES
    \* create_training_data of create_training_data_2.py: the rows of
    \* bbox_gdf (what the catalog holds for the patch, whether its
    \* landslide meets the region, the maximum of the mask), position, the
    \* row being processed, the value pull_sentinel_data returned, the
    \* value create_mask returned, the export tasks started, in order, and
    \* the exception that ended the script
    e_rows, e_pc, e_k, e_images, has_landslide, e_tasks, e_error

exportvars == <<e_rows, e_pc, e_k, e_images, has_landslide, e_tasks, e_error>>

VARIABLES
    \* the GUI of src/gui: the users stored in gui/user_details.json and
    \* whether the file is open for writing and still empty; the four
    \* dcc.Store components of one browser session and the page shown;
    \* whether display_page has yet to run for the last write to
    \* login-status
    user_details, file_truncated,
    login_status, current_user, message_store, mode_store,
    page_content, display_pending,
    \* observation: the arguments of handle_action if it was the last
    \* callback to run, and the password submitted in the login that set
    \* current-user
    last_request, login_password,
    \* two handle_action requests served by two threads of the server:
    \* position, arguments, the users each has loaded, the message returned
    th_pc, th_request, th_users, th_message

guivars == <<user_details, file_truncated, login_status, current_user,
             message_store, mode_store, page_content, display_pending,
             last_request, login_password,
             th_pc, th_request, th_users, th_message>>

VARIABLES
    \* the annotation tool of src/gui/mask_creator.py and load_annotations:
    \* position, the roi-features and landslide-features stores, the two
    \* date pickers, the download save_annotations returned (<< >> = None)
    \* and the dictionary load_annotations returned
    an_pc, roi_data, landslide_data, start_date, end_date, download, loaded

annotvars == <<an_pc, roi_data, landslide_data, start_date, end_date,
               download, loaded>>

\* variables of the scripts of part 3
part3 == <<cvars, mvars, hvars, kvars, tvars>>
\* variables of the scripts of part 4
uvars == <<splitvars, boxvars, exportvars, guivars, annotvars>>
ovars == <<part3, uvars>>

vars == <<bvars, pvars, ovars>>

\* ------------------------------------------------------------ the catalog
Footprints == SUBSET Pix \ {{}}

\* A Sentinel-2 tile carries a cloud percentage, a Sentinel-1 image an
\* instrument mode.  A tile that fails the attribute filter is dropped by
\* the query before its footprint is read, so one footprint stands for all.
TileS2 ==
    [time: Times, foot: Footprints, cloud: {10}, mode: {"n/a"}]
        \cup [time: Times, foot: {Pix}, cloud: {40}, mode: {"n/a"}]
TileS1 ==
    [time: Times, foot: Footprints, cloud: {0}, mode: {"IW"}]
        \cup [time: Times, foot: {Pix}, cloud: {0}, mode: {"EW"}]

\* The catalog lists its tiles in ingestion order, which is chronological.
Chronological(c) == \A a, b \in DOMAIN c: a < b => c[a].time <= c[b].time

CatalogsOf(T) ==
    UNION {{c \in [1..n -> T]: Chronological(c)}: n \in 0..MaxTiles}

\* calendar date of an acquisition time (date.format("YYYY-MM-dd"))
Date(t) == t \div SlotsPerDay

\* image of catalog tile k
Img(k) == [p \in Pix |-> IF p \in catalog[k].foot THEN k ELSE 0]

Valid(img) == {p \in DOMAIN img: img[p] # 0}

\* ----------------------------------------------------- catalog operations
RECURSIVE FilterIds(_, _)
\* ids of s (in order) that satisfy the test set keep
FilterIds(s, keep) ==
    IF s = << >> THEN << >>
    ELSE IF Head(s) \in keep THEN <<Head(s)>> \o FilterIds(Tail(s), keep)
         ELSE FilterIds(Tail(s), keep)

\* .filterBounds(geometry)
InBounds == {k \in DOMAIN catalog: catalog[k].foot \cap geometry # {}}

\* .filterDate(start_date_str, end_date_str): start inclusive, end exclusive,
\* both at midnight of the day.
InWindow ==
    {k \in DOMAIN catalog:
        /\ catalog[k].time >= (today - days_back) * SlotsPerDay
        /\ catalog[k].time < today * SlotsPerDay}

\* .filter(ee.Filter.lt("CLOUDY_PIXEL_PERCENTAGE", cloud_cover_max))
CloudOk == {k \in DOMAIN catalog: catalog[k].cloud < CloudCoverMax}

\* .filter(ee.Filter.eq("instrumentMode", instrument_mode)), default "IW"
ModeOk == {k \in DOMAIN catalog: catalog[k].mode = "IW"}

RECURSIVE InsertDesc(_, _)
\* stable insertion: x goes behind every element that is at least as new
InsertDesc(s, x) ==
    IF s = << >> THEN <<x>>
    ELSE IF catalog[Head(s)].time >= catalog[x].time
         THEN <<Head(s)>> \o InsertDesc(Tail(s), x)
         ELSE <<x>> \o s

Unsorted(s) == s

RECURSIVE SortDesc(_)
\* .sort("system:time_start", False): most recent first
SortDesc(s) ==
    IF s = << >> THEN << >>
    ELSE InsertDesc(SortDesc(SubSeq(s, 1, Len(s) - 1)), s[Len(s)])

Ids == [k \in DOMAIN catalog |-> k]

QueryS2 == SortDesc(FilterIds(Ids, InBounds \cap InWindow \cap CloudOk))
QueryS1 == SortDesc(FilterIds(Ids, InBounds \cap InWindow \cap ModeOk))

RECURSIVE SetDesc(_)
\* a set of numbers as a strictly descending sequence
SetDesc(S) ==
    IF S = {} THEN << >>
    ELSE LET m == CHOOSE x \in S: \A y \in S: y <= x
         IN <<m>> \o SetDesc(S \ {m})

\* aggregate_array("date_only").distinct().sort().reverse()
UniqueDates(s) == SetDesc({Date(catalog[s[j]].time): j \in DOMAIN s})

\* s2_with_dates.filter(ee.Filter.eq("date_only", date_str))
SameDay(s, d) == FilterIds(s, {k \in DOMAIN catalog: Date(catalog[k].time) = d})

RECURSIVE Mosaic(_)
\* ImageCollection.mosaic(): per pixel the last image of the collection with
\* a valid pixel wins; a pixel valid in no image stays masked.
Mosaic(imgs) ==
    IF imgs = << >> THEN [p \in Pix |-> 0]
    ELSE LET top == imgs[Len(imgs)]
             below == Mosaic(SubSeq(imgs, 1, Len(imgs) - 1))
         IN [p \in Pix |-> IF top[p] # 0 THEN top[p] ELSE below[p]]

\* same_day_images.mosaic()
DayMosaic(s, d) == LET ids == SameDay(s, d)
                   IN Mosaic([j \in DOMAIN ids |-> Img(ids[j])])

\* composite = ee.ImageCollection([older, composite]).mosaic(), or the
\* group itself when there is no composite yet
LayerOlderOnTop(comp, older) ==
    IF comp = None THEN older ELSE Mosaic(<<comp, older>>)
LayerReplace(comp, older) == older
Layer(comp, older) ==
    IF comp = None THEN older ELSE Mosaic(<<older, comp>>)

\* check_coverage: the numerator, valid area inside the geometry
ValidArea(img) == Cardinality(Valid(img) \cap geometry) * PixelArea
\* geometry.area()
TotalArea == Cardinality(geometry) * PixelArea

ReachesStrict(area, thr) == area * 100 > thr * TotalArea
\* coverage >= coverage_threshold, the threshold in percent
Reaches(area, thr) == area * 100 >= thr * TotalArea


\* ------------------------------------------------------------ input sets
Sensors == {"S2", "S1"}
Regions == {Pix, {1}}
\* coverage_threshold in percent: 0.5 and the default 0.95
Thresholds == {50, 95}
Clock == {2}
DaysBack == {1, 2}

\* the patch scripts before they start
\* the other scripts are not running
CoverageIdle ==
    /\ cc_pc = "off" /\ cc_image = None /\ cc_geometry = {}
    /\ cc_err = 0 /\ cc_coverage = None /\ cc_reported = None

SimpleIdle == simple_pc = "off" /\ simple_image = None

WriterIdle ==
    /\ hw_pc = "off" /\ s1_avail = {} /\ s2_avail = {}
    /\ s1_bands = {} /\ s2_bands = {}
    /\ s1_band_names = {} /\ s2_band_names = {}
    /\ downloads = 0 /\ h5_out = << >> /\ hw_error = "none"

PairIdle ==
    /\ img_h5 = << >> /\ mask_h5 = << >> /\ pp_pc = "off"
    /\ out_files = {} /\ pp_error = "none"

FilesIdle == script = "none" /\ WriterIdle /\ PairIdle

QuickIdle ==
    /\ q_caller = "none" /\ q_dates = 0 /\ q_budget = 0 /\ q_reach = 0
    /\ q_pc = "off" /\ q_calls = 0 /\ q_fail_at = 0 /\ q_exc = "none"
    /\ q_result = "unset"

TrainingIdle ==
    /\ t_rows = << >> /\ t_pc = "off" /\ t_k = 0
    /\ t_s2 = "unset" /\ t_s1 = "unset" /\ t_images = None
    /\ t_reported = {} /\ t_tasks = {} /\ t_error = "none"

SplitIdle ==
    /\ sp_pc = "off" /\ sp_width = 0 /\ sp_height = 0
    /\ target_patch_size = 0 /\ max_patch_size = 0
    /\ sp_config = << >> /\ sp_row = 0 /\ sp_col = 0
    /\ output_paths = << >>

BoxIdle ==
    /\ bx_pc = "off" /\ bbox_geom = << >> /\ min_size = 0 /\ max_size = 0
    /\ bx_once = << >> /\ bx_twice = << >>

ExportIdle ==
    /\ e_rows = << >> /\ e_pc = "off" /\ e_k = 0 /\ e_images = << >>
    /\ has_landslide = FALSE /\ e_tasks = << >> /\ e_error = "none"

GuiIdle ==
    /\ user_details = << >> /\ file_truncated = FALSE
    /\ login_status = FALSE /\ current_user = "" /\ message_store = ""
    /\ mode_store = "login" /\ page_content = "off"
    /\ display_pending = FALSE
    /\ last_request = << >> /\ login_password = ""
    /\ th_pc = << >> /\ th_request = << >> /\ th_users = << >>
    /\ th_message = << >>

AnnotIdle ==
    /\ an_pc = "off" /\ roi_data = << >> /\ landslide_data = << >>
    /\ start_date = << >> /\ end_date = << >>
    /\ download = << >> /\ loaded = << >>

Part3Idle ==
    CoverageIdle /\ SimpleIdle /\ FilesIdle /\ QuickIdle /\ TrainingIdle
Part4Idle ==
    SplitIdle /\ BoxIdle /\ ExportIdle /\ GuiIdle /\ AnnotIdle
OthersIdle == Part3Idle /\ Part4Idle

PatchIdle ==
    /\ n_features = 0 /\ max_workers = 1 /\ bpc = "off"
    /\ next_submit = 0 /\ completed = 0 /\ failed = 0
    /\ work_queue = << >> /\ idle_sem = 0
    /\ wstate = [w \in 1..MaxFeatures |-> "none"]
    /\ witem = [w \in 1..MaxFeatures |-> 0]
    /\ fut = << >> /\ collected = {} /\ results_log = << >>
    /\ h5_files = {}
    /\ n_rows = 0 /\ spc = "off" /\ row_i = 0
    /\ metadata_list = << >> /\ patch_files = {} /\ rows_raised = {}

BuilderInit ==
    /\ sensor \in Sensors
    /\ catalog \in CatalogsOf(IF sensor = "S2" THEN TileS2 ELSE TileS1)
    /\ today \in Clock
    /\ geometry \in Regions
    /\ days_back \in DaysBack
    /\ require_full_coverage \in BOOLEAN
    /\ coverage_threshold \in Thresholds
    /\ budget \in 0..MaxBudget
    \* a tile older than the date window is dropped by the query before its
    \* footprint is read, so one footprint stands for all
    /\ \A k \in DOMAIN catalog:
          catalog[k].time < (today - days_back) * SlotsPerDay
              => catalog[k].foot = Pix
    \* a tile that does not touch the geometry is dropped by filterBounds
    \* before its pixels are read, so the largest such footprint stands for
    \* all
    /\ \A k \in DOMAIN catalog:
          catalog[k].foot \cap geometry = {}
              => catalog[k].foot = Pix \ geometry
    /\ pc = "start"
    /\ cands = << >>
    /\ dates_list = << >>
    /\ i = 0
    /\ composite = None
    /\ dates_used = << >>
    /\ image_ids_used = << >>
    /\ tiles_used = 0
    /\ images_used = 0
    /\ coverage = 0
    /\ result_image = None
    /\ result_meta = None
    /\ cov_log = << >>
    /\ prev_composite = None
    /\ call = 1
    /\ first_today = 0
    /\ first_image = None
    /\ first_meta = None
    /\ first_dates = << >>
    /\ prog = "builder"
    /\ PatchIdle

first == <<call, first_today, first_image, first_meta, first_dates>>

args == <<catalog, today, sensor, geometry, days_back, require_full_coverage,
          coverage_threshold, budget>>

StaleLocals ==
    UNCHANGED <<composite, dates_used, image_ids_used, tiles_used, images_used>>
\* composite = None; dates_used = []; tiles_used = 0 / images_used = 0
FreshLocals ==
    /\ composite' = None
    /\ dates_used' = << >>
    /\ image_ids_used' = << >>
    /\ tiles_used' = 0
    /\ images_used' = 0

\* collection_size == 0
NoCandidatesNever(s) == FALSE
NoCandidates(s) == Len(s) = 0

StopAtAnyCoverage(cov) == require_full_coverage
StopOnStale(cov) ==
    require_full_coverage /\ Reaches(coverage, coverage_threshold)
\* if require_full_coverage and coverage >= coverage_threshold
StopNow(cov) ==
    require_full_coverage /\ Reaches(cov, coverage_threshold)

Min(a, b) == IF a <= b THEN a ELSE b

S2BudgetOffByOne(k) == k > budget
\* if i >= max_days_to_composite: break
S2BudgetReached(k) == k >= budget

S1RangeIgnoresBudget == Len(cands)
\* range(min(collection_size, max_images_to_composite))
S1Range == Min(Len(cands), budget)

S2ReturnsAnyComposite == composite # None
\* if composite is not None: ... if not require_full_coverage: return composite
S2ReturnsPartial == composite # None /\ ~require_full_coverage

\* ---------------------------------- get_most_recent_sentinel2_auckland_ee
\* lines 66-109: the query, the empty-collection return, the date list
S2Start ==
    /\ pc = "start" /\ sensor = "S2"
    /\ cands' = QueryS2
    /\ IF NoCandidates(QueryS2)
       THEN /\ pc' = "done"
            /\ result_image' = None
            /\ UNCHANGED <<dates_list, composite, dates_used, image_ids_used,
                           tiles_used, images_used>>
       ELSE /\ pc' = "loop"
            /\ dates_list' = UniqueDates(QueryS2)
            /\ FreshLocals
            /\ UNCHANGED result_image
    /\ i' = 0
    /\ UNCHANGED <<args, first, pvars, ovars, coverage, result_meta, cov_log, prev_composite>>

\* lines 111-157: one pass of the loop body
S2Iterate ==
    /\ pc = "loop" /\ sensor = "S2"
    /\ i < Len(dates_list)
    /\ ~S2BudgetReached(i)
    /\ LET date_str == dates_list[i + 1]
           day_mosaic == DayMosaic(cands, date_str)
           comp == Layer(composite, day_mosaic)
           cov == ValidArea(comp)
       IN /\ tiles_used' = tiles_used + Len(SameDay(cands, date_str))
          /\ prev_composite' = composite
          /\ composite' = comp
          /\ dates_used' = Append(dates_used, date_str)
          /\ coverage' = cov
          /\ cov_log' = Append(cov_log, cov)
          /\ IF StopNow(cov)
             THEN /\ pc' = "done"
                  /\ result_image' = comp
                  /\ i' = i
             ELSE /\ pc' = "loop"
                  /\ i' = i + 1
                  /\ UNCHANGED result_image
    /\ UNCHANGED <<args, first, pvars, ovars, cands, dates_list, image_ids_used, images_used, result_meta>>

\* lines 112-114 and 159-181: the loop ends (budget or dates exhausted)
S2AfterLoop ==
    /\ pc = "loop" /\ sensor = "S2"
    /\ (i >= Len(dates_list) \/ S2BudgetReached(i))
    /\ IF S2ReturnsPartial
       THEN result_image' = composite
       ELSE result_image' = None
    /\ pc' = "done"
    /\ UNCHANGED <<args, first, pvars, ovars, cands, dates_list, i, composite, dates_used,
                   image_ids_used, tiles_used, images_used, coverage,
                   result_meta, cov_log, prev_composite>>

\* ---------------------------------- get_most_recent_sentinel1_auckland_ee
\* lines 305-351; most_recent_image = ee.Image(image_list.get(0)).getInfo()
\* raises on an empty list
S1Start ==
    /\ pc = "start" /\ sensor = "S1"
    /\ cands' = QueryS1
    /\ IF NoCandidates(QueryS1)
       THEN /\ pc' = "done"
            /\ result_image' = None
            /\ result_meta' = None
            /\ UNCHANGED <<composite, dates_used, image_ids_used, tiles_used,
                           images_used>>
       ELSE IF Len(QueryS1) = 0
       THEN /\ pc' = "raised"
            /\ UNCHANGED <<result_image, result_meta, composite, dates_used,
                           image_ids_used, tiles_used, images_used>>
       ELSE /\ pc' = "loop"
            /\ FreshLocals
            /\ UNCHANGED <<result_image, result_meta>>
    /\ i' = 0
    /\ UNCHANGED <<args, first, pvars, ovars, dates_list, coverage, cov_log, prev_composite>>

S1IterateSkipsNoOp ==
    /\ pc = "loop" /\ sensor = "S1"
    /\ i < S1Range
    /\ LET img_id == cands[i + 1]
           comp == Layer(composite, Img(img_id))
           cov == ValidArea(comp)
           noop == composite # None /\ cov = ValidArea(composite)
       IN /\ prev_composite' = composite
          /\ composite' = comp
          /\ images_used' = IF noop THEN images_used ELSE images_used + 1
          /\ dates_used' = IF noop THEN dates_used
                           ELSE Append(dates_used, catalog[img_id].time)
          /\ image_ids_used' = IF noop THEN image_ids_used
                               ELSE Append(image_ids_used, img_id)
          /\ coverage' = cov
          /\ cov_log' = Append(cov_log, cov)
          /\ IF StopNow(cov)
             THEN pc' = "after" /\ i' = i
             ELSE pc' = "loop" /\ i' = i + 1
    /\ UNCHANGED <<args, first, pvars, ovars, cands, dates_list, tiles_used, result_image, result_meta>>
\* lines 353-386: one pass of the loop body
S1Iterate ==
    /\ pc = "loop" /\ sensor = "S1"
    /\ i < S1Range
    /\ LET img_id == cands[i + 1]
           comp == Layer(composite, Img(img_id))
           cov == ValidArea(comp)
       IN /\ prev_composite' = composite
          /\ composite' = comp
          /\ images_used' = images_used + 1
          /\ dates_used' = Append(dates_used, catalog[img_id].time)
          /\ image_ids_used' = Append(image_ids_used, img_id)
          /\ coverage' = cov
          /\ cov_log' = Append(cov_log, cov)
          /\ IF StopNow(cov)
             THEN pc' = "after" /\ i' = i
             ELSE pc' = "loop" /\ i' = i + 1
    /\ UNCHANGED <<args, first, pvars, ovars, cands, dates_list, tiles_used, result_image, result_meta>>

MetadataCountsIndex ==
    [images_used |-> i,
     dates_used |-> dates_used,
     image_ids_used |-> image_ids_used,
     is_composite |-> i > 1,
     coverage |-> IF composite # None THEN ValidArea(composite) ELSE 0]

\* lines 388-397
Metadata ==
    [images_used |-> images_used,
     dates_used |-> dates_used,
     image_ids_used |-> image_ids_used,
     is_composite |-> images_used > 1,
     coverage |-> IF composite # None THEN ValidArea(composite) ELSE 0]

\* lines 388-405: after the loop (break, or range exhausted)
S1AfterLoop ==
    /\ sensor = "S1"
    /\ \/ pc = "after"
       \/ pc = "loop" /\ ~(i < S1Range)
    /\ IF composite # None
       THEN result_image' = composite /\ result_meta' = <<Metadata>>
       ELSE result_image' = None /\ result_meta' = None
    /\ pc' = "done"
    /\ UNCHANGED <<args, first, pvars, ovars, cands, dates_list, i, composite, dates_used,
                   image_ids_used, tiles_used, images_used, coverage,
                   cov_log, prev_composite>>

BuilderNext ==
    \/ S2Start \/ S2Iterate \/ S2AfterLoop
    \/ S1Start \/ S1Iterate \/ S1AfterLoop

\* The caller calls the builder a second time with the same arguments
\* against the same catalog; the clock (datetime.utcnow() / datetime.now(),
\* lines 67 and 306) may have moved on to the next day.
CallAgain ==
    /\ pc = "done" /\ call = 1
    /\ call' = 2
    /\ first_today' = today
    /\ first_image' = result_image
    /\ first_meta' = result_meta
    /\ first_dates' = dates_used
    /\ today' \in {today, today + 1}
    /\ pc' = "start"
    /\ result_image' = None
    /\ result_meta' = None
    /\ cov_log' = << >>
    /\ prev_composite' = None
    /\ UNCHANGED <<catalog, sensor, geometry, days_back, require_full_coverage,
                   coverage_threshold, budget, cands, dates_list, i, composite,
                   dates_used, image_ids_used, tiles_used, images_used,
                   coverage, pvars, ovars>>

Init == BuilderInit /\ OthersIdle
Next == BuilderNext
Spec == Init /\ [][Next]_vars

\* two calls in a row, for the default threshold over the whole region
InitTwice ==
    /\ BuilderInit /\ OthersIdle
    /\ coverage_threshold = 95
    /\ geometry = Pix
    /\ days_back = 2
NextTwice == BuilderNext \/ CallAgain
SpecTwice == InitTwice /\ [][NextTwice]_vars

\* ======================================== src/hdf5_processing/test.py
Workers == 1..MaxFeatures
Features == 0..(n_features - 1)
\* exception classes raised under process_single_patch: a malformed
\* feature, an Earth Engine error, a failed download or write
Exceptions == {"KeyError", "EEException", "HTTPError", "OSError"}

BatchInit ==
    /\ prog = "batch"
    /\ n_features \in 0..MaxFeatures
    /\ max_workers \in 1..MaxWorkers
    /\ bpc = "submit"
    /\ next_submit = 0 /\ completed = 0 /\ failed = 0
    /\ work_queue = << >> /\ idle_sem = 0
    /\ wstate = [w \in Workers |-> "none"]
    /\ witem = [w \in Workers |-> 0]
    /\ fut = [f \in Features |-> "pending"]
    /\ collected = {} /\ results_log = << >>
    /\ h5_files = {}
    /\ n_rows = 0 /\ spc = "off" /\ row_i = 0
    /\ metadata_list = << >> /\ patch_files = {} /\ rows_raised = {}

svars == <<n_rows, spc, row_i, metadata_list, patch_files, rows_raised>>
bconst == <<prog, n_features, max_workers>>

NumThreads == Cardinality({w \in Workers: wstate[w] # "none"})
Running == {w \in Workers: wstate[w] \notin {"none", "wait"}}

SpawnAlways == TRUE
\* ThreadPoolExecutor._adjust_thread_count: if num_threads < max_workers
MaySpawn == NumThreads < max_workers

\* lines 204-207: executor.submit(process_func, feature, i) for the next
\* feature; the executor queues the work item and starts a thread unless
\* one is idle or max_workers threads exist
Submit ==
    /\ prog = "batch" /\ bpc = "submit"
    /\ next_submit < n_features
    /\ work_queue' = Append(work_queue, next_submit)
    /\ next_submit' = next_submit + 1
    /\ IF idle_sem > 0
       THEN idle_sem' = idle_sem - 1 /\ UNCHANGED wstate
       ELSE /\ UNCHANGED idle_sem
            /\ IF MaySpawn
               THEN LET w == CHOOSE x \in Workers: wstate[x] = "none"
                    IN wstate' = [wstate EXCEPT ![w] = "wait"]
               ELSE UNCHANGED wstate
    /\ UNCHANGED <<bconst, results_log, bpc, completed, failed, witem, fut, collected,
                   h5_files, svars, bvars, ovars>>

\* line 209: all features are submitted, the main thread enters as_completed
SubmitDone ==
    /\ prog = "batch" /\ bpc = "submit"
    /\ next_submit = n_features
    /\ bpc' = "collect"
    /\ UNCHANGED <<bconst, results_log, next_submit, completed, failed, work_queue, idle_sem,
                   wstate, witem, fut, collected, h5_files, svars, bvars, ovars>>

DequeuePeek(q) == q
\* work_queue.get(): the item leaves the queue
Dequeue(q) == Tail(q)

\* a pool thread takes the next work item and enters process_single_patch
WorkerTake(w) ==
    /\ prog = "batch"
    /\ wstate[w] = "wait"
    /\ work_queue # << >>
    /\ witem' = [witem EXCEPT ![w] = Head(work_queue)]
    /\ work_queue' = Dequeue(work_queue)
    /\ wstate' = [wstate EXCEPT ![w] = "fetch"]
    /\ fut' = [fut EXCEPT ![Head(work_queue)] = "running"]
    /\ UNCHANGED <<bconst, results_log, bpc, next_submit, completed, failed, idle_sem,
                   collected, h5_files, svars, bvars, ovars>>

CaughtOnlyEE(e) == e = "EEException"
\* line 57: except Exception
Caught(e) == e \in Exceptions

\* the work item ends: the future gets the returned tuple or the exception,
\* the thread releases the idle semaphore and waits again
EndItem(w, outcome) ==
    /\ fut' = [fut EXCEPT ![witem[w]] = outcome]
    /\ wstate' = [wstate EXCEPT ![w] = "wait"]
    /\ idle_sem' = idle_sem + 1

\* lines 57-58: the handler of process_single_patch
Raise(w, e) ==
    EndItem(w, IF Caught(e) THEN "fail" ELSE "exc")

\* lines 35-40: the geometry of the feature, get_s2_image, get_s1_image
WorkerFetch(w) ==
    /\ prog = "batch"
    /\ wstate[w] = "fetch"
    /\ \/ /\ wstate' = [wstate EXCEPT ![w] = "export"]
          /\ UNCHANGED <<fut, idle_sem>>
       \/ \E e \in Exceptions: Raise(w, e)
    /\ UNCHANGED <<bconst, results_log, bpc, next_submit, completed, failed, work_queue,
                   witem, collected, h5_files, svars, bvars, ovars>>

\* lines 43-55: ee_images_to_hdf5_optimized writes image_{index}.h5, then
\* return (index, True, ...)
WorkerExport(w) ==
    /\ prog = "batch"
    /\ wstate[w] = "export"
    /\ \/ /\ EndItem(w, "ok")
          /\ h5_files' = h5_files \cup {witem[w]}
       \/ /\ \E e \in Exceptions: Raise(w, e)
          /\ UNCHANGED h5_files
    /\ UNCHANGED <<bconst, results_log, bpc, next_submit, completed, failed, work_queue,
                   witem, collected, svars, bvars, ovars>>

\* lines 209-221: as_completed yields a finished future; future.result()
\* returns the tuple, or re-raises what the work item raised
Collect ==
    /\ prog = "batch" /\ bpc = "collect"
    /\ \E f \in Features \ collected:
          /\ fut[f] \in {"ok", "fail", "exc"}
          /\ collected' = collected \cup {f}
          /\ IF fut[f] = "exc"
             THEN bpc' = "crashed" /\ UNCHANGED <<completed, failed, results_log>>
             ELSE /\ UNCHANGED bpc
                  /\ results_log' = Append(results_log, <<f, fut[f] = "ok">>)
                  /\ IF fut[f] = "ok"
                     THEN completed' = completed + 1 /\ UNCHANGED failed
                     ELSE failed' = failed + 1 /\ UNCHANGED completed
    /\ UNCHANGED <<bconst, next_submit, work_queue, idle_sem, wstate, witem,
                   fut, h5_files, svars, bvars, ovars>>

\* lines 223-227: every future was yielded, the with block shuts the pool
\* down and the summary is printed
BatchDone ==
    /\ prog = "batch" /\ bpc = "collect"
    /\ collected = Features
    /\ bpc' = "done"
    /\ UNCHANGED <<bconst, results_log, next_submit, completed, failed, work_queue, idle_sem,
                   wstate, witem, fut, collected, h5_files, svars, bvars, ovars>>

\* ===================================== src/data_importer/fill_patches.py
SequentialInit ==
    /\ prog = "sequential"
    /\ n_rows \in 0..MaxFeatures
    /\ spc = "loop" /\ row_i = 0
    /\ metadata_list = << >> /\ patch_files = {} /\ rows_raised = {}
    /\ n_features = 0 /\ max_workers = 1 /\ bpc = "off"
    /\ next_submit = 0 /\ completed = 0 /\ failed = 0
    /\ work_queue = << >> /\ idle_sem = 0
    /\ wstate = [w \in Workers |-> "none"]
    /\ witem = [w \in Workers |-> 0]
    /\ fut = << >> /\ collected = {} /\ results_log = << >>
    /\ h5_files = {}

bstate == <<n_features, max_workers, bpc, next_submit, completed, failed,
            work_queue, idle_sem, wstate, witem, fut, collected, results_log,
            h5_files>>

RowCaughtOnlyOS(e) == e = "OSError"
\* line 159: except Exception as e: ... continue
RowCaught(e) == e \in Exceptions

\* lines 93-161: one row of the grid.  The try block opens
\* patch_{patch_id}.h5, writes both sensors and the attributes and appends
\* the patch to metadata_list; an exception in it is printed and the loop
\* goes on with the next row (the file may already exist).
PatchRow ==
    /\ prog = "sequential" /\ spc = "loop"
    /\ row_i < n_rows
    /\ \/ /\ patch_files' = patch_files \cup {row_i}
          /\ metadata_list' = Append(metadata_list, row_i)
          /\ row_i' = row_i + 1
          /\ UNCHANGED <<spc, rows_raised>>
       \/ \E e \in Exceptions, opened \in BOOLEAN:
          /\ patch_files' = IF opened THEN patch_files \cup {row_i}
                            ELSE patch_files
          /\ IF RowCaught(e)
             THEN /\ rows_raised' = rows_raised \cup {row_i}
                  /\ row_i' = row_i + 1
                  /\ UNCHANGED spc
             ELSE /\ spc' = "crashed"
                  /\ UNCHANGED <<rows_raised, row_i>>
          /\ UNCHANGED metadata_list
    /\ UNCHANGED <<prog, n_rows, bstate, bvars, ovars>>

\* lines 163-171: the loop is over, patches_metadata.json is written
PatchesDone ==
    /\ prog = "sequential" /\ spc = "loop"
    /\ row_i = n_rows
    /\ spc' = "done"
    /\ UNCHANGED <<prog, n_rows, row_i, metadata_list, patch_files,
                   rows_raised, bstate, bvars, ovars>>

\* the builder does not run while the patch scripts do
BuilderOff ==
    /\ catalog = << >> /\ today = 0 /\ sensor = "S2" /\ geometry = {}
    /\ days_back = 0 /\ require_full_coverage = TRUE
    /\ coverage_threshold = 0 /\ budget = 0 /\ pc = "off"
    /\ cands = << >> /\ dates_list = << >> /\ i = 0 /\ composite = None
    /\ dates_used = << >> /\ image_ids_used = << >> /\ tiles_used = 0
    /\ images_used = 0 /\ coverage = 0 /\ result_image = None
    /\ result_meta = None /\ cov_log = << >> /\ prev_composite = None
    /\ call = 1 /\ first_today = 0 /\ first_image = None
    /\ first_meta = None /\ first_dates = << >>

InitPatches == BuilderOff /\ OthersIdle /\ (BatchInit \/ SequentialInit)
NextPatches ==
    \/ Submit \/ SubmitDone
    \/ \E w \in Workers: WorkerTake(w) \/ WorkerFetch(w) \/ WorkerExport(w)
    \/ Collect \/ BatchDone
    \/ PatchRow \/ PatchesDone
SpecPatches == InitPatches /\ [][NextPatches]_vars

\* ============================================ part 3: the other scripts
\* ------------------------------------------------------- check_coverage
\* src/data_importer/get_newest_data.py lines 184-213 (and 431-460).
\* The numerator sums ee.Image.pixelArea() over the valid pixels of a grid
\* sampled at scale=10 (bestEffort=True); the denominator is
\* geometry.area(maxError=10), the area of the polygon computed within
\* that tolerance.  The two are measured independently, so the denominator
\* may fall on either side of the pixel sum of the whole region.
AreaErrors == -MaxAreaError..MaxAreaError

\* valid_mask.multiply(pixelArea()).reduceRegion(sum, geometry, scale=10)
CCValidArea(img, geom) == Cardinality(Valid(img) \cap geom) * PixelArea
\* geometry.area(maxError=10)
CCTotalArea(geom, err) == Cardinality(geom) * PixelArea + err

\* ee.Number(valid_area).divide(total_area), kept as numerator and
\* denominator
check_coverage(img, geom, err) ==
    [valid_area |-> CCValidArea(img, geom),
     total_area |-> CCTotalArea(geom, err)]

CoverageInit ==
    /\ cc_pc = "call"
    /\ cc_image \in [Pix -> 0..MaxTiles]
    /\ cc_geometry \in Footprints
    /\ cc_err = 0 /\ cc_coverage = None /\ cc_reported = None

\* lines 191-213
CheckCoverage ==
    /\ cc_pc = "call"
    /\ \E err \in AreaErrors:
          /\ cc_err' = err
          /\ cc_coverage' = check_coverage(cc_image, cc_geometry, err)
    /\ cc_pc' = "returned"
    /\ UNCHANGED <<cc_image, cc_geometry, cc_reported, uvars, bvars, pvars, mvars, hvars, kvars, tvars>>

\* the callers print coverage*100 and store it in the metadata as returned
\* (lines 140-143, 161-175, 378-379, 394)
ReportCoverage ==
    /\ cc_pc = "returned"
    /\ cc_reported' = cc_coverage
    /\ cc_pc' = "reported"
    /\ UNCHANGED <<cc_image, cc_geometry, cc_err, cc_coverage, uvars, bvars, pvars, mvars, hvars, kvars, tvars>>

\* parts 1 and 2 at rest
PartsOff == BuilderOff /\ PatchIdle /\ prog = "other"

InitCoverage ==
    PartsOff /\ SimpleIdle /\ FilesIdle /\ QuickIdle /\ TrainingIdle /\ Part4Idle /\ CoverageInit
NextCoverage == CheckCoverage \/ ReportCoverage
SpecCoverage == InitCoverage /\ [][NextCoverage]_vars

\* ------------------------------------------- src/get_newest_data.py
\* get_most_recent_sentinel2_auckland_ee (lines 23-89) and
\* get_most_recent_sentinel1_auckland_ee (lines 123-206): the same filter
\* chain as the progressive builders, then collection.first().
SimpleLast(s) == Img(s[Len(s)])
\* most_recent = collection.first()
SimpleFirst(s) == Img(s[1])

SimpleCall ==
    /\ simple_pc = "start" /\ pc = "done"
    /\ LET coll == IF sensor = "S2" THEN QueryS2 ELSE QueryS1
       IN IF Len(coll) = 0
          THEN simple_image' = None
          ELSE simple_image' = SimpleFirst(coll)
    /\ simple_pc' = "done"
    /\ UNCHANGED <<uvars, bvars, pvars, cvars, hvars, kvars, tvars>>

\* a progressive builder with a budget of one group, then the simple
\* variant on the same catalog, clock and arguments
InitSimple ==
    /\ BuilderInit /\ CoverageIdle /\ FilesIdle /\ QuickIdle /\ TrainingIdle
    /\ Part4Idle
    /\ budget = 1
    /\ simple_pc = "start" /\ simple_image = None
NextSimple == BuilderNext \/ SimpleCall
SpecSimple == InitSimple /\ [][NextSimple]_vars

\* ------------------ src/hdf5_processing/annotations_to_landslides.py
\* ee_images_to_hdf5 (lines 375-526) and, in src/hdf5_processing/test.py,
\* ee_images_to_hdf5_optimized (lines 61-119).  Band names are numbered.
Bands == 1..MaxBands

ValidBandsUnchecked(requested, available) == requested
\* valid_s1_bands = [b for b in s1_bands if b in available_s1_bands]
ValidBands(requested, available) == requested \cap available

\* metadata.attrs of the two writers
FullAttrs == {"scale", "crs", "region", "s1_bands", "s2_bands"}
OptimizedAttrs == {"scale", "crs", "s1_bands", "s2_bands"}

\* the file both writers create: the groups, the datasets of the two
\* band groups, the attributes of the metadata group and the two band lists
H5File(attrs) ==
    [groups |-> {"sentinel1", "sentinel2", "metadata"},
     sentinel1 |-> s1_band_names,
     sentinel2 |-> s2_band_names,
     attrs |-> attrs,
     s1_bands |-> s1_band_names,
     s2_bands |-> s2_band_names]

WriterInit ==
    /\ script \in {"full", "optimized"}
    /\ hw_pc = "start"
    /\ s1_avail \in SUBSET Bands /\ s2_avail \in SUBSET Bands
    /\ s1_bands \in SUBSET Bands /\ s2_bands \in SUBSET Bands
    /\ s1_band_names = {} /\ s2_band_names = {}
    /\ downloads = 0 /\ h5_out = << >> /\ hw_error = "none"

WriterRaise(e) ==
    /\ hw_pc' = "raised"
    /\ hw_error' = e

\* lines 415-457: the band checks of ee_images_to_hdf5
FullValidate ==
    /\ script = "full" /\ hw_pc = "start"
    /\ IF \/ s1_avail = {}
          \/ s2_avail = {}
          \/ s1_bands # {} /\ ValidBands(s1_bands, s1_avail) = {}
          \/ s2_bands # {} /\ ValidBands(s2_bands, s2_avail) = {}
       THEN /\ WriterRaise("ValueError")
            /\ UNCHANGED <<s1_band_names, s2_band_names>>
       ELSE /\ s1_band_names' = IF s1_bands # {}
                                THEN ValidBands(s1_bands, s1_avail)
                                ELSE s1_avail
            /\ s2_band_names' = IF s2_bands # {}
                                THEN ValidBands(s2_bands, s2_avail)
                                ELSE s2_avail
            /\ hw_pc' = "download"
            /\ UNCHANGED hw_error
    /\ UNCHANGED <<script, s1_avail, s2_avail, s1_bands, s2_bands, downloads,
                   h5_out, qvars, uvars, bvars, pvars, cvars, mvars, kvars, tvars>>

\* lines 464-477: extract_func on the S1 image, then on the S2 image;
\* either request may fail and the exception leaves the function
FullDownload ==
    /\ script = "full" /\ hw_pc = "download"
    /\ \/ downloads' = downloads + 1 /\ WriterRaise("DownloadError")
       \/ downloads' = downloads + 2 /\ WriterRaise("DownloadError")
       \/ downloads' = downloads + 2 /\ hw_pc' = "write"
                                      /\ UNCHANGED hw_error
    /\ UNCHANGED <<script, s1_avail, s2_avail, s1_bands, s2_bands,
                   s1_band_names, s2_band_names, h5_out, qvars, uvars, bvars, pvars,
                   cvars, mvars, kvars, tvars>>

\* lines 492-523
FullWrite ==
    /\ script = "full" /\ hw_pc = "write"
    /\ h5_out' = <<H5File(FullAttrs)>>
    /\ hw_pc' = "done"
    /\ UNCHANGED <<script, s1_avail, s2_avail, s1_bands, s2_bands,
                   s1_band_names, s2_band_names, downloads, hw_error, qvars,
                   uvars, bvars, pvars, cvars, mvars, kvars, tvars>>

\* test.py lines 74-81: select() then bandNames().getInfo(), which fails
\* in Earth Engine when a selected band does not exist
OptimizedSelect ==
    /\ script = "optimized" /\ hw_pc = "start"
    /\ IF ~(s1_bands \subseteq s1_avail) \/ ~(s2_bands \subseteq s2_avail)
       THEN /\ WriterRaise("EEException")
            /\ UNCHANGED <<s1_band_names, s2_band_names>>
       ELSE /\ s1_band_names' = IF s1_bands # {} THEN s1_bands ELSE s1_avail
            /\ s2_band_names' = IF s2_bands # {} THEN s2_bands ELSE s2_avail
            /\ hw_pc' = "download"
            /\ UNCHANGED hw_error
    /\ UNCHANGED <<script, s1_avail, s2_avail, s1_bands, s2_bands, downloads,
                   h5_out, qvars, uvars, bvars, pvars, cvars, mvars, kvars, tvars>>

\* test.py lines 85-92: the GeoTIFF download of both images, and on any
\* exception the thumbnail fallback, whose exception leaves the function
OptimizedDownload ==
    /\ script = "optimized" /\ hw_pc = "download"
    /\ \/ downloads' = downloads + 2 /\ hw_pc' = "write"
                                      /\ UNCHANGED hw_error
       \/ \E tried \in 1..2:
             \/ downloads' = downloads + tried + 2 /\ hw_pc' = "write"
                                                  /\ UNCHANGED hw_error
             \/ \E again \in 1..2:
                   /\ downloads' = downloads + tried + again
                   /\ WriterRaise("DownloadError")
    /\ UNCHANGED <<script, s1_avail, s2_avail, s1_bands, s2_bands,
                   s1_band_names, s2_band_names, h5_out, qvars, uvars, bvars, pvars,
                   cvars, mvars, kvars, tvars>>

\* test.py lines 94-119
OptimizedWrite ==
    /\ script = "optimized" /\ hw_pc = "write"
    /\ h5_out' = <<H5File(OptimizedAttrs)>>
    /\ hw_pc' = "done"
    /\ UNCHANGED <<script, s1_avail, s2_avail, s1_bands, s2_bands,
                   s1_band_names, s2_band_names, downloads, hw_error, qvars,
                   uvars, bvars, pvars, cvars, mvars, kvars, tvars>>

\* ------------------------- src/Model Training/cleaning_normalise.py
\* An HDF5 file is the list of the entries of its root group; an entry is
\* a dataset or a group with its own entries.
SeqsUpTo(S, n) == UNION {[1..m -> S]: m \in 0..n}
Dataset == [kind |-> "dataset", kids |-> << >>]
InnerGroups == {[kind |-> "group", kids |-> ks]: ks \in SeqsUpTo({Dataset}, MaxKids)}
H5Files == SeqsUpTo({Dataset} \cup InnerGroups, MaxKids)

RECURSIVE find_dataset(_)
\* _find_dataset, lines 336-345: the first dataset, depth first
find_dataset(g) ==
    IF g = << >> THEN None
    ELSE IF Head(g).kind = "dataset" THEN <<"array">>
         ELSE LET result == find_dataset(Head(g).kids)
              IN IF result # None THEN result ELSE find_dataset(Tail(g))

PairInit ==
    /\ script = "clean"
    /\ img_h5 \in H5Files /\ mask_h5 \in H5Files
    /\ pp_pc = "start" /\ out_files = {} /\ pp_error = "none"

\* lines 361-363 with read_first_dataset, lines 333-351
PairRead ==
    /\ script = "clean" /\ pp_pc = "start"
    /\ IF find_dataset(img_h5) = None \/ find_dataset(mask_h5) = None
       THEN pp_pc' = "raised" /\ pp_error' = "ValueError"
       ELSE pp_pc' = "validate" /\ UNCHANGED pp_error
    /\ UNCHANGED <<script, img_h5, mask_h5, out_files, wvars, uvars, bvars, pvars,
                   cvars, mvars, kvars, tvars>>

\* lines 365-368: validate_data may report errors
PairValidate ==
    /\ script = "clean" /\ pp_pc = "validate"
    /\ \/ pp_pc' = "raised" /\ pp_error' = "ValueError"
       \/ pp_pc' = "write" /\ UNCHANGED pp_error
    /\ UNCHANGED <<script, img_h5, mask_h5, out_files, wvars, uvars, bvars, pvars,
                   cvars, mvars, kvars, tvars>>

\* lines 371-412: normalise, clean and save the two files
PairWrite ==
    /\ script = "clean" /\ pp_pc = "write"
    /\ out_files' = {"img_clean", "mask_clean"}
    /\ pp_pc' = "done"
    /\ UNCHANGED <<script, img_h5, mask_h5, pp_error, wvars, uvars, bvars, pvars,
                   cvars, mvars, kvars, tvars>>

InitFiles ==
    /\ PartsOff /\ CoverageIdle /\ SimpleIdle /\ QuickIdle /\ TrainingIdle
    /\ Part4Idle
    /\ \/ WriterInit /\ PairIdle
       \/ PairInit /\ WriterIdle
NextFiles ==
    \/ FullValidate \/ FullDownload \/ FullWrite
    \/ OptimizedSelect \/ OptimizedDownload \/ OptimizedWrite
    \/ PairRead \/ PairValidate \/ PairWrite
SpecFiles == InitFiles /\ [][NextFiles]_vars

\* ----------------------------------- a Sentinel-2 request and its caller
\* "quick_progressive": quick_get_auckland_sentinel2 of
\*     src/data_importer/get_newest_data.py (lines 239-266), which calls the
\*     progressive builder without its required geometry argument;
\* "quick_simple": quick_get_auckland_sentinel2 of src/get_newest_data.py
\*     (lines 93-120), which calls the single-image variant;
\* "direct": extract_sentinel_patches (src/data_importer/fill_patches.py
\*     lines 57-61), which calls the progressive builder outside any try.
\* Both callers leave require_full_coverage at its default, True.
Callers == {"quick_progressive", "quick_simple", "direct"}
Quick == {"quick_progressive", "quick_simple"}

\* passes of the layering loop the progressive builder makes
Passes ==
    LET k == Min(q_dates, q_budget)
    IN IF q_reach \in 1..k THEN q_reach ELSE k

Reached == q_reach \in 1..Min(q_dates, q_budget)

\* catalog and statistics requests (getInfo) a call issues when none fails.
\* Progressive builder: the collection size (line 83); the number and the
\* list of dates (lines 104, 108); per pass the tile count and the coverage
\* (lines 119, 140); then log_image_info on success (line 154) or the
\* final coverage (line 161).  Simple variant: the collection size twice
\* (lines 70, 72) and the image properties (line 79).
CatalogCalls ==
    IF q_caller = "quick_simple"
    THEN IF q_dates = 0 THEN 2 ELSE 3
    ELSE IF q_dates = 0 THEN 1
         ELSE IF Passes = 0 THEN 3
         ELSE 3 + 2 * Passes + 1

\* what the builder returns when no request fails
BuilderResult ==
    IF q_dates = 0 THEN "None"
    ELSE IF q_caller = "quick_simple" THEN "image"
    ELSE IF Reached THEN "image" ELSE "None"

QuickInit ==
    /\ q_caller \in Callers
    /\ q_dates \in 0..MaxTiles
    /\ q_budget \in 0..MaxBudget
    /\ q_reach \in 0..MaxBudget
    /\ q_pc = "start" /\ q_calls = 0 /\ q_fail_at = 0 /\ q_exc = "none"
    /\ q_result = "unset"

RetryOnError(e) ==
    /\ q_exc' = "none"
    /\ q_pc' = "builder"
\* the builders have no try block: an exception leaves the builder, into
\* the caller's except clause where there is one
Propagate(e) ==
    /\ q_exc' = e
    /\ q_pc' = IF q_caller \in Quick THEN "except" ELSE "propagated"

\* the call expression itself: binding the arguments fails with TypeError
\* when the required geometry is missing (data_importer lines 31-32, 252)
CallBuilder ==
    /\ q_pc = "start"
    /\ IF q_caller = "quick_progressive"
       THEN /\ q_exc' = "TypeError"
            /\ q_pc' = "except"
       ELSE /\ q_pc' = "builder"
            /\ UNCHANGED q_exc
    /\ UNCHANGED <<q_caller, q_dates, q_budget, q_reach, q_calls, q_fail_at,
                   q_result, uvars, bvars, pvars, cvars, mvars, hvars, tvars>>

\* one getInfo() of the builder answers
CatalogCall ==
    /\ q_pc = "builder" /\ q_calls < CatalogCalls
    /\ q_calls' = q_calls + 1
    /\ UNCHANGED <<q_caller, q_dates, q_budget, q_reach, q_pc, q_fail_at,
                   q_exc, q_result, uvars, bvars, pvars, cvars, mvars, hvars, tvars>>

\* one getInfo() of the builder raises
CatalogFail ==
    /\ q_pc = "builder" /\ q_calls < CatalogCalls
    /\ q_calls' = q_calls + 1
    /\ q_fail_at' = q_calls + 1
    /\ \E e \in {"EEException", "ConnectionError"}: Propagate(e)
    /\ UNCHANGED <<q_caller, q_dates, q_budget, q_reach, q_result, uvars, bvars,
                   pvars, cvars, mvars, hvars, tvars>>

\* the builder returns; quick_get returns the image if there is one and
\* None otherwise (lines 256-261), extract_sentinel_patches goes on with
\* the image or returns (fill_patches lines 63-65)
BuilderReturn ==
    /\ q_pc = "builder" /\ q_calls = CatalogCalls
    /\ q_result' = BuilderResult
    /\ q_pc' = "done"
    /\ UNCHANGED <<q_caller, q_dates, q_budget, q_reach, q_calls, q_fail_at,
                   q_exc, uvars, bvars, pvars, cvars, mvars, hvars, tvars>>

\* except Exception as e: ... return None (lines 263-266)
QuickExcept ==
    /\ q_pc = "except"
    /\ q_result' = "None"
    /\ q_pc' = "done"
    /\ UNCHANGED <<q_caller, q_dates, q_budget, q_reach, q_calls, q_fail_at,
                   q_exc, uvars, bvars, pvars, cvars, mvars, hvars, tvars>>

InitQuick ==
    /\ PartsOff /\ CoverageIdle /\ SimpleIdle /\ FilesIdle /\ TrainingIdle
    /\ Part4Idle
    /\ QuickInit
NextQuick ==
    \/ CallBuilder \/ CatalogCall \/ CatalogFail \/ BuilderReturn
    \/ QuickExcept
SpecQuick == InitQuick /\ [][NextQuick]_vars

\* --------- src/peter_landslide_model_creation/create_training_data.py
\* A row of bbox_gdf: where its 60-day window lies (before Sentinel-2,
\* before 2017-03-28, or later) and whether the three collections hold an
\* image for its region and window.  The frame's index labels are
\* consecutive and start one below the label the loop processes.
Eras == {"pre2015", "pre2017", "post"}
Label(k) == OnlyIdx + k - 2
EventRow == [era: Eras, s2_sr: BOOLEAN, s2_toa: BOOLEAN, s1: BOOLEAN]
\* a row the loop skips is never read
SkippedRow == [era |-> "post", s2_sr |-> FALSE, s2_toa |-> FALSE, s1 |-> FALSE]
Frames ==
    UNION {{f \in [1..n -> EventRow]:
                \A k \in 1..n: Label(k) # OnlyIdx => f[k] = SkippedRow}:
           n \in 0..MaxEvents}

\* get_s2_image, lines 91-133: "None, None" is the tuple (None, None)
get_s2_image(row) ==
    LET found == IF row.era = "pre2017" THEN row.s2_toa
                 ELSE row.s2_sr \/ row.s2_toa
    IN IF found THEN "mosaic" ELSE "None, None"

\* get_s1_image, lines 135-153
get_s1_image(row) == IF row.s1 THEN "mosaic" ELSE "None"

TrainingInit ==
    /\ t_rows \in Frames
    /\ t_pc = "loop" /\ t_k = 1
    /\ t_s2 = "unset" /\ t_s1 = "unset" /\ t_images = None
    /\ t_reported = {} /\ t_tasks = {} /\ t_error = "none"

\* lines 322-324: if idx != 6: continue
TrainSkip ==
    /\ t_pc = "loop" /\ t_k <= Len(t_rows)
    /\ Label(t_k) # OnlyIdx
    /\ t_k' = t_k + 1
    /\ UNCHANGED <<t_rows, t_pc, t_s2, t_s1, t_images, t_reported, t_tasks,
                   t_error, uvars, bvars, pvars, cvars, mvars, hvars, kvars>>

\* lines 325-329 and 222-229: the call of pull_sentinel_data and its early
\* return for a window before Sentinel-2
PullStart ==
    /\ t_pc = "loop" /\ t_k <= Len(t_rows)
    /\ Label(t_k) = OnlyIdx
    /\ IF t_rows[t_k].era = "pre2015"
       THEN t_pc' = "pulled" /\ t_images' = None
       ELSE t_pc' = "get_s2" /\ UNCHANGED t_images
    /\ t_s2' = "unset" /\ t_s1' = "unset"
    /\ UNCHANGED <<t_rows, t_k, t_reported, t_tasks, t_error, uvars, bvars, pvars,
                   cvars, mvars, hvars, kvars>>

\* line 242
GetS2 ==
    /\ t_pc = "get_s2"
    /\ t_s2' = get_s2_image(t_rows[t_k])
    /\ t_pc' = "get_s1"
    /\ UNCHANGED <<t_rows, t_k, t_s1, t_images, t_reported, t_tasks, t_error,
                   uvars, bvars, pvars, cvars, mvars, hvars, kvars>>

\* line 243
GetS1 ==
    /\ t_pc = "get_s1"
    /\ t_s1' = get_s1_image(t_rows[t_k])
    /\ t_pc' = "return"
    /\ UNCHANGED <<t_rows, t_k, t_s2, t_images, t_reported, t_tasks, t_error,
                   uvars, bvars, pvars, cvars, mvars, hvars, kvars>>

\* lines 244-248: if s1 is not None and s2 is not None
PullReturn ==
    /\ t_pc = "return"
    /\ IF t_s1 # "None" /\ t_s2 # "None"
       THEN t_images' = <<[s1 |-> t_s1, s2 |-> t_s2]>>
       ELSE t_images' = None
    /\ t_pc' = "pulled"
    /\ UNCHANGED <<t_rows, t_k, t_s2, t_s1, t_reported, t_tasks, t_error,
                   uvars, bvars, pvars, cvars, mvars, hvars, kvars>>

\* lines 330-332: if images is None: print(...); continue
TrainNoData ==
    /\ t_pc = "pulled" /\ t_images = None
    /\ t_reported' = t_reported \cup {Label(t_k)}
    /\ t_k' = t_k + 1
    /\ t_pc' = "loop"
    /\ UNCHANGED <<t_rows, t_s2, t_s1, t_images, t_tasks, t_error, uvars, bvars,
                   pvars, cvars, mvars, hvars, kvars>>

\* lines 334-342: s1_image.toFloat(), s2_image.toFloat(); a tuple has no
\* toFloat, and nothing catches the AttributeError
TrainToFloat ==
    /\ t_pc = "pulled" /\ t_images # None
    /\ IF t_images[1].s2 = "mosaic" /\ t_images[1].s1 = "mosaic"
       THEN t_pc' = "export" /\ UNCHANGED t_error
       ELSE t_pc' = "crashed" /\ t_error' = "AttributeError"
    /\ UNCHANGED <<t_rows, t_k, t_s2, t_s1, t_images, t_reported, t_tasks,
                   uvars, bvars, pvars, cvars, mvars, hvars, kvars>>

\* lines 345-358: the export of the stacked image and of the mask
TrainExport ==
    /\ t_pc = "export"
    /\ t_tasks' = t_tasks \cup {Label(t_k)}
    /\ t_k' = t_k + 1
    /\ t_pc' = "loop"
    /\ UNCHANGED <<t_rows, t_s2, t_s1, t_images, t_reported, t_error, uvars, bvars,
                   pvars, cvars, mvars, hvars, kvars>>

\* line 359
TrainDone ==
    /\ t_pc = "loop" /\ t_k > Len(t_rows)
    /\ t_pc' = "done"
    /\ UNCHANGED <<t_rows, t_k, t_s2, t_s1, t_images, t_reported, t_tasks,
                   t_error, uvars, bvars, pvars, cvars, mvars, hvars, kvars>>

InitTraining ==
    /\ PartsOff /\ CoverageIdle /\ SimpleIdle /\ FilesIdle /\ QuickIdle
    /\ Part4Idle
    /\ TrainingInit
NextTraining ==
    \/ TrainSkip \/ PullStart \/ GetS2 \/ GetS1 \/ PullReturn
    \/ TrainNoData \/ TrainToFloat \/ TrainExport \/ TrainDone
SpecTraining == InitTraining /\ [][NextTraining]_vars

\* ======================================================= part 4: utilities
\* everything but split_tiff
OtherThanSplit ==
    <<bvars, pvars, part3, boxvars, exportvars, guivars, annotvars>>

\* ---------------- src/peter_landslide_model_creation/split_patches.py
Sides == 1..MaxSide

Max(a, b) == IF a >= b THEN a ELSE b

\* round(n / d) of Python 3: to the nearest integer, a tie to the even one
Round(n, d) ==
    LET q == n \div d
        r == n % d
    IN IF 2 * r < d THEN q
       ELSE IF 2 * r > d THEN q + 1
       ELSE IF q % 2 = 0 THEN q ELSE q + 1

\* get_optimal_patch_size: <<patch_width, patch_height, num_cols, num_rows>>
get_optimal_patch_size(width, height, target_size) ==
    LET num_cols == Max(1, Round(width, target_size))
        num_rows == Max(1, Round(height, target_size))
    IN <<width \div num_cols, height \div num_rows, num_cols, num_rows>>

\* if width <= max_patch_size and height <= max_patch_size
SmallEnough(width, height) ==
    width <= max_patch_size /\ height <= max_patch_size

EdgeIgnored(idx, n, total, offset, patch) == patch
\* the extent of a window along one axis: the last column (row) runs to the
\* edge of the image (lines 97-105)
Extent(idx, n, total, offset, patch) ==
    IF idx = n - 1 THEN total - offset ELSE patch

\* a file written: the copy of the input, or the patch of one window
CopyFile ==
    [kind |-> "copy", row |-> 0, col |-> 0, x |-> 0, y |-> 0,
     w |-> sp_width, h |-> sp_height]

PatchFile(row, col) ==
    LET patch_width == sp_config[1]
        patch_height == sp_config[2]
        num_cols == sp_config[3]
        num_rows == sp_config[4]
        x_offset == col * patch_width
        y_offset == row * patch_height
    IN [kind |-> "patch", row |-> row, col |-> col,
        x |-> x_offset, y |-> y_offset,
        w |-> Extent(col, num_cols, sp_width, x_offset, patch_width),
        h |-> Extent(row, num_rows, sp_height, y_offset, patch_height)]

SplitInit ==
    /\ sp_pc = "start"
    /\ sp_width \in Sides /\ sp_height \in Sides
    /\ target_patch_size \in Sides /\ max_patch_size \in Sides
    /\ sp_config = << >> /\ sp_row = 0 /\ sp_col = 0
    /\ output_paths = << >>

\* lines 59-86: open the input, compute the configuration, copy a small image
SplitOpen ==
    /\ sp_pc = "start"
    /\ sp_config' =
          get_optimal_patch_size(sp_width, sp_height, target_patch_size)
    /\ IF SmallEnough(sp_width, sp_height)
       THEN /\ output_paths' = <<CopyFile>>
            /\ sp_pc' = "done"
       ELSE /\ output_paths' = << >>
            /\ sp_pc' = "loop"
    /\ UNCHANGED <<sp_width, sp_height, target_patch_size, max_patch_size,
                   sp_row, sp_col, OtherThanSplit>>

\* lines 90-144: one pass of the inner loop
SplitPatch ==
    /\ sp_pc = "loop"
    /\ sp_row < sp_config[4]
    /\ output_paths' = Append(output_paths, PatchFile(sp_row, sp_col))
    /\ IF sp_col + 1 < sp_config[3]
       THEN sp_col' = sp_col + 1 /\ sp_row' = sp_row
       ELSE sp_col' = 0 /\ sp_row' = sp_row + 1
    /\ UNCHANGED <<sp_pc, sp_width, sp_height, target_patch_size,
                   max_patch_size, sp_config, OtherThanSplit>>

\* lines 146-148: both loops are exhausted
SplitReturn ==
    /\ sp_pc = "loop"
    /\ sp_row >= sp_config[4]
    /\ sp_pc' = "done"
    /\ UNCHANGED <<sp_width, sp_height, target_patch_size, max_patch_size,
                   sp_config, sp_row, sp_col, output_paths, OtherThanSplit>>

InitSplit ==
    /\ PartsOff /\ Part3Idle /\ BoxIdle /\ ExportIdle /\ GuiIdle /\ AnnotIdle
    /\ SplitInit
NextSplit == SplitOpen \/ SplitPatch \/ SplitReturn
SpecSplit == InitSplit /\ [][NextSplit]_vars

\* --------- src/peter_landslide_model_creation/create_training_data.py
\* everything but constrain_bbox_size
OtherThanBox ==
    <<bvars, pvars, part3, splitvars, exportvars, guivars, annotvars>>

\* The coordinates are Python floats.  The model keeps the rounding of
\* binary floating point with a significand of Mantissa bits: every sum
\* and difference is rounded to the nearest representable number, a tie to
\* the one with an even significand.  Halving is exact in binary floating
\* point; the input coordinates are multiples of 4 so that every halving
\* of two applications in a row stays an integer.
RECURSIVE Pow2(_)
Pow2(n) == IF n = 0 THEN 1 ELSE 2 * Pow2(n - 1)

Abs(x) == IF x < 0 THEN -x ELSE x

RECURSIVE Quantum(_, _)
\* the spacing of the representable numbers at magnitude x, q or more
Quantum(x, q) ==
    IF x < Pow2(Mantissa) * q THEN q ELSE Quantum(x, 2 * q)

Ulp(x) == Quantum(Abs(x), 1)

\* rounding to the nearest representable number
Fl(x) ==
    LET a == Abs(x)
        q == Ulp(x)
        r == a % q
        down == a - r
        near == IF 2 * r < q THEN down
                ELSE IF 2 * r > q THEN down + q
                ELSE IF (down \div q) % 2 = 0 THEN down ELSE down + q
    IN IF x < 0 THEN -near ELSE near

Floats == {x \in 0..MaxCoord: x % 4 = 0 /\ Fl(x) = x}

\* a bounding box as (minx, miny, maxx, maxy), bbox_geom.bounds
Boxes ==
    {b \in Floats \X Floats \X Floats \X Floats: b[1] <= b[3] /\ b[2] <= b[4]}

Sizes == {8, 16}

AdjustMinOnly(size, lo, hi) == IF size < lo THEN lo ELSE size
\* lines 181-195: the adjusted width or height
Adjust(size, lo, hi) ==
    IF size < lo THEN lo
    ELSE IF size > hi THEN hi
    ELSE size

\* lines 176-203
constrain_bbox_size(b, lo, hi) ==
    LET minx == b[1]
        miny == b[2]
        maxx == b[3]
        maxy == b[4]
        width == Fl(maxx - minx)
        height == Fl(maxy - miny)
        center_x == Fl(minx + maxx) \div 2
        center_y == Fl(miny + maxy) \div 2
        new_width == Adjust(width, lo, hi)
        new_height == Adjust(height, lo, hi)
    IN <<Fl(center_x - new_width \div 2), Fl(center_y - new_height \div 2),
         Fl(center_x + new_width \div 2), Fl(center_y + new_height \div 2)>>

BoxInit ==
    /\ bx_pc = "start"
    /\ bbox_geom \in Boxes
    /\ min_size \in Sizes /\ max_size \in Sizes
    /\ bx_once = << >> /\ bx_twice = << >>

\* the call of line 223
Constrain ==
    /\ bx_pc = "start"
    /\ bx_once' = constrain_bbox_size(bbox_geom, min_size, max_size)
    /\ bx_pc' = "once"
    /\ UNCHANGED <<bbox_geom, min_size, max_size, bx_twice, OtherThanBox>>

\* the function applied to the box it returned
ConstrainAgain ==
    /\ bx_pc = "once"
    /\ bx_twice' = constrain_bbox_size(bx_once, min_size, max_size)
    /\ bx_pc' = "twice"
    /\ UNCHANGED <<bbox_geom, min_size, max_size, bx_once, OtherThanBox>>

InitBox ==
    /\ PartsOff /\ Part3Idle /\ SplitIdle /\ ExportIdle /\ GuiIdle /\ AnnotIdle
    /\ BoxInit
NextBox == Constrain \/ ConstrainAgain
SpecBox == InitBox /\ [][NextBox]_vars

\* ------- src/peter_landslide_model_creation/create_training_data_2.py
\* everything but create_training_data of create_training_data_2.py
OtherThanExport ==
    <<bvars, pvars, part3, splitvars, boxvars, guivars, annotvars>>

\* get_s2_image, lines 106-151
get_s2_image_2(row) ==
    LET found == IF row.era = "pre2017" THEN row.s2_toa
                 ELSE row.s2_sr \/ row.s2_toa
    IN IF found THEN "image" ELSE "None"

\* get_s1_image, lines 153-168
get_s1_image_2(row) == IF row.s1 THEN "image" ELSE "None"

\* pull_sentinel_data, lines 202-244
pull_sentinel_data_2(row) ==
    IF row.era = "pre2015" THEN None
    ELSE IF get_s1_image_2(row) # "None" /\ get_s2_image_2(row) # "None"
         THEN <<[s1 |-> get_s1_image_2(row), s2 |-> get_s2_image_2(row)]>>
         ELSE None

\* A row of bbox_gdf with the landslide of the same position in gdf: the
\* fields of EventRow, whether the landslide intersects the region, and the
\* maximum of the painted mask over the region.  A field the script never
\* reads for the row has one value that stands for all.
PatchRow2 ==
    {r \in [era: Eras, s2_sr: BOOLEAN, s2_toa: BOOLEAN, s1: BOOLEAN,
            intersects: BOOLEAN, mask_max: {0, 1}]:
        /\ r.era = "pre2015" => ~r.s2_sr /\ ~r.s2_toa /\ ~r.s1
        /\ r.era = "pre2017" => ~r.s2_sr
        /\ (r.era = "post" /\ r.s2_sr) => ~r.s2_toa
        /\ pull_sentinel_data_2(r) = None => ~r.intersects
        /\ ~r.intersects => r.mask_max = 0}

PatchFrames == UNION {[1..n -> PatchRow2]: n \in 0..MaxPatches}

\* the index label of row k: the frames are read from a file, their
\* labels are 0, 1, ...
Idx(k) == k - 1

MaskEmptyNever(stats_max) == FALSE
\* if stats.get('landslide_mask_max', 0) == 0
MaskEmpty(stats_max) == stats_max = 0

ExportInit ==
    /\ e_rows \in PatchFrames
    /\ e_pc = "loop" /\ e_k = 1
    /\ e_images = None /\ has_landslide = FALSE
    /\ e_tasks = << >> /\ e_error = "none"

\* lines 330-335: the next row and the call of pull_sentinel_data
ExportPull ==
    /\ e_pc = "loop" /\ e_k <= Len(e_rows)
    /\ e_images' = pull_sentinel_data_2(e_rows[e_k])
    /\ e_pc' = "pulled"
    /\ UNCHANGED <<e_rows, e_k, has_landslide, e_tasks, e_error,
                   OtherThanExport>>

\* lines 336-338: if images is None: ... continue
ExportNoData ==
    /\ e_pc = "pulled" /\ e_images = None
    /\ e_k' = e_k + 1
    /\ e_pc' = "loop"
    /\ UNCHANGED <<e_rows, e_images, has_landslide, e_tasks, e_error,
                   OtherThanExport>>

\* lines 340-344 and 267-272: create_mask is called and returns False when
\* the landslide does not intersect the region
MaskIntersects ==
    /\ e_pc = "pulled" /\ e_images # None
    /\ IF ~e_rows[e_k].intersects
       THEN has_landslide' = FALSE /\ e_pc' = "masked"
       ELSE UNCHANGED has_landslide /\ e_pc' = "stats"
    /\ UNCHANGED <<e_rows, e_k, e_images, e_tasks, e_error, OtherThanExport>>

\* lines 275-310: the mask is painted and its statistics are fetched;
\* create_mask returns False for a mask without a landslide pixel
MaskStats ==
    /\ e_pc = "stats"
    /\ IF MaskEmpty(e_rows[e_k].mask_max)
       THEN has_landslide' = FALSE /\ e_pc' = "masked"
       ELSE UNCHANGED has_landslide /\ e_pc' = "mask_export"
    /\ UNCHANGED <<e_rows, e_k, e_images, e_tasks, e_error, OtherThanExport>>

\* lines 313-327: the mask export is started and create_mask returns True;
\* task.start() is a request to the server and may raise, nothing in the
\* script catches it
MaskExport ==
    /\ e_pc = "mask_export"
    /\ \/ /\ e_tasks' = Append(e_tasks, <<"mask", Idx(e_k)>>)
          /\ has_landslide' = TRUE
          /\ e_pc' = "masked"
          /\ UNCHANGED e_error
       \/ /\ e_error' = "EEException"
          /\ e_pc' = "crashed"
          /\ UNCHANGED <<e_tasks, has_landslide>>
    /\ UNCHANGED <<e_rows, e_k, e_images, OtherThanExport>>

\* lines 346-348: if not has_landslide: ... continue
ExportSkip ==
    /\ e_pc = "masked" /\ ~has_landslide
    /\ e_k' = e_k + 1
    /\ e_pc' = "loop"
    /\ UNCHANGED <<e_rows, e_images, has_landslide, e_tasks, e_error,
                   OtherThanExport>>

\* lines 350-371: the stacked image export is started
ImageExport ==
    /\ e_pc = "masked" /\ has_landslide
    /\ e_tasks' = Append(e_tasks, <<"image", Idx(e_k)>>)
    /\ e_k' = e_k + 1
    /\ e_pc' = "loop"
    /\ UNCHANGED <<e_rows, e_images, has_landslide, e_error, OtherThanExport>>

\* line 372: the rows are exhausted
ExportDone ==
    /\ e_pc = "loop" /\ e_k > Len(e_rows)
    /\ e_pc' = "done"
    /\ UNCHANGED <<e_rows, e_k, e_images, has_landslide, e_tasks, e_error,
                   OtherThanExport>>

InitExport ==
    /\ PartsOff /\ Part3Idle /\ SplitIdle /\ BoxIdle /\ GuiIdle /\ AnnotIdle
    /\ ExportInit
NextExport ==
    \/ ExportPull \/ ExportNoData \/ MaskIntersects \/ MaskStats
    \/ MaskExport \/ ExportSkip \/ ImageExport \/ ExportDone
SpecExport == InitExport /\ [][NextExport]_vars

\* ------------------------------------------------------------- src/gui
\* everything but the GUI
OtherThanGui ==
    <<bvars, pvars, part3, splitvars, boxvars, exportvars, annotvars>>

\* What the form fields can hold; "" stands for an empty or missing value
\* (None or the empty string, both false for Python's "not").
Usernames == {"alice", "bob"}
Passwords == {"pw1", "pw2"}
Projects == {"proj"}
Account == [password: Passwords, ee_project: Projects]

\* the contents the user file can have: a JSON object of accounts
UserFiles == UNION {[d -> Account]: d \in SUBSET Usernames}

Requests ==
    [n_clicks: {0, 1}, username: Usernames \cup {""},
     password: Passwords \cup {""}, project: Projects \cup {""},
     mode: {"login", "create"}]

\* lines 107-114: the users loaded; a missing file and a file that does not
\* parse both give {}
LoadUsers == IF file_truncated THEN << >> ELSE user_details

\* lines 97-105, 116-118, 140-158: the message of a request that is
\* answered without calling Earth Engine and without writing the file,
\* "go on" for the others
AlwaysGoOn(r, users) == "go on"
CreateUnchecked(r, users) ==
    IF r.n_clicks <= 0 THEN ""
    ELSE IF r.username = "" \/ r.password = "" THEN "enter both"
    ELSE IF r.mode = "login"
         THEN IF /\ r.username \in DOMAIN users
                 /\ r.password = users[r.username].password
              THEN "go on" ELSE "invalid credentials"
    ELSE IF r.project = "" THEN "missing project"
    ELSE "go on"
Screen(r, users) ==
    IF r.n_clicks <= 0 THEN ""
    ELSE IF r.username = "" \/ r.password = "" THEN "enter both"
    ELSE IF r.mode = "login"
         THEN IF /\ r.username \in DOMAIN users
                 /\ r.password = users[r.username].password
              THEN "go on" ELSE "invalid credentials"
    ELSE IF r.project = "" THEN "missing project"
    ELSE IF r.username \in DOMAIN users THEN "username exists"
    ELSE "go on"

\* line 161: users[username] = {"password": password, "ee_project": project}
WithUser(users, r) ==
    [u \in DOMAIN users \cup {r.username} |->
        IF u = r.username
        THEN [password |-> r.password, ee_project |-> r.project]
        ELSE users[u]]

GuiInit ==
    /\ user_details \in UserFiles /\ file_truncated = FALSE
    /\ login_status = FALSE /\ current_user = "" /\ message_store = ""
    /\ mode_store = "login" /\ page_content = "none"
    /\ display_pending = TRUE
    /\ last_request = << >> /\ login_password = ""
    /\ th_pc = << >> /\ th_request = << >> /\ th_users = << >>
    /\ th_message = << >>

threads == <<th_pc, th_request, th_users, th_message>>

\* handle_action returns (message, False, None, mode)
Refuse(message) ==
    /\ message_store' = message
    /\ login_status' = FALSE
    /\ current_user' = ""
    /\ UNCHANGED <<mode_store, user_details, login_password>>

\* handle_action, lines 94-185, as one callback of the session.  It runs
\* for a click on the action button and, with n_clicks = 0, when the login
\* page is put into the layout.
handle_action ==
    /\ page_content = "login"
    /\ \E r \in Requests:
          /\ r.mode = mode_store
          /\ last_request' = <<r>>
          /\ LET users == LoadUsers
                 message == Screen(r, users)
             IN IF message # "go on" THEN Refuse(message)
                ELSE IF r.mode = "login"
                THEN \/ /\ message_store' = ""
                        /\ login_status' = TRUE
                        /\ current_user' = r.username
                        /\ login_password' = r.password
                        /\ UNCHANGED <<mode_store, user_details>>
                     \/ Refuse("ee failed")
                ELSE \/ /\ user_details' = WithUser(users, r)
                        /\ message_store' = "created"
                        /\ login_status' = FALSE
                        /\ current_user' = ""
                        /\ mode_store' = "login"
                        /\ UNCHANGED login_password
                     \/ Refuse("create failed")
    /\ display_pending' = TRUE
    /\ UNCHANGED <<file_truncated, page_content, threads, OtherThanGui>>

\* update_form_mode, lines 25-74: a click on the toggle link switches the
\* mode, a call without a click keeps it
update_form_mode ==
    /\ page_content = "login"
    /\ \E n_clicks \in {0, 1}:
          mode_store' = IF n_clicks > 0 /\ mode_store = "login" THEN "create"
                        ELSE IF n_clicks > 0 /\ mode_store = "create"
                        THEN "login"
                        ELSE IF mode_store = "create" THEN "create"
                        ELSE "login"
    /\ last_request' = << >>
    /\ UNCHANGED <<user_details, file_truncated, login_status, current_user,
                   message_store, page_content, display_pending,
                   login_password, threads, OtherThanGui>>

\* handle_logout, map_callbacks.py lines 28-31
handle_logout ==
    /\ page_content = "map"
    /\ \E n_clicks \in {0, 1}:
          IF n_clicks > 0
          THEN /\ login_status' = FALSE
               /\ current_user' = ""
               /\ display_pending' = TRUE
          ELSE UNCHANGED <<login_status, current_user, display_pending>>
    /\ last_request' = << >>
    /\ UNCHANGED <<user_details, file_truncated, message_store, mode_store,
                   page_content, login_password, threads, OtherThanGui>>

\* display_page, run.py lines 32-36
Page == IF login_status THEN "map" ELSE "login"

display_page ==
    /\ page_content' = Page
    /\ display_pending' = FALSE
    /\ last_request' = << >>
    /\ UNCHANGED <<user_details, file_truncated, login_status, current_user,
                   message_store, mode_store, login_password, threads,
                   OtherThanGui>>

InitGui ==
    /\ PartsOff /\ Part3Idle /\ SplitIdle /\ BoxIdle /\ ExportIdle /\ AnnotIdle
    /\ GuiInit
NextGui ==
    handle_action \/ update_form_mode \/ handle_logout \/ display_page
SpecGui == InitGui /\ [][NextGui]_vars

\* Two account-creation requests served at the same time: the development
\* server of app.run handles each request in a thread of its own, and
\* nothing in handle_action locks the file.
session == <<login_status, current_user, message_store, mode_store,
             page_content, display_pending, last_request, login_password>>

Threads == {1, 2}

ThreadsInit ==
    /\ user_details \in UserFiles /\ file_truncated = FALSE
    /\ login_status = FALSE /\ current_user = "" /\ message_store = ""
    /\ mode_store = "create" /\ page_content = "login"
    /\ display_pending = FALSE
    /\ last_request = << >> /\ login_password = ""
    /\ th_pc = [t \in Threads |-> "start"]
    /\ th_request \in [Threads -> {r \in Requests: /\ r.mode = "create"
                                                   /\ r.n_clicks = 1}]
    /\ th_users = [t \in Threads |-> << >>]
    /\ th_message = [t \in Threads |-> ""]

\* lines 97-161: the checks, the load of the file and the new entry
ThreadLoad(t) ==
    /\ th_pc[t] = "start"
    /\ LET message == Screen(th_request[t], LoadUsers)
       IN IF message # "go on"
          THEN /\ th_message' = [th_message EXCEPT ![t] = message]
               /\ th_pc' = [th_pc EXCEPT ![t] = "done"]
               /\ UNCHANGED th_users
          ELSE /\ th_users' =
                     [th_users EXCEPT ![t] = WithUser(LoadUsers, th_request[t])]
               /\ th_pc' = [th_pc EXCEPT ![t] = "open"]
               /\ UNCHANGED th_message
    /\ UNCHANGED <<user_details, file_truncated, th_request, session,
                   OtherThanGui>>

\* line 165: open(..., "w") empties the file, or raises and the request is
\* answered with an error (lines 175-182)
ThreadOpen(t) ==
    /\ th_pc[t] = "open"
    /\ \/ /\ user_details' = << >>
          /\ file_truncated' = TRUE
          /\ th_pc' = [th_pc EXCEPT ![t] = "dump"]
          /\ UNCHANGED th_message
       \/ /\ th_message' = [th_message EXCEPT ![t] = "create failed"]
          /\ th_pc' = [th_pc EXCEPT ![t] = "done"]
          /\ UNCHANGED <<user_details, file_truncated>>
    /\ UNCHANGED <<th_request, th_users, session, OtherThanGui>>

\* lines 166-174: json.dump writes the users of this request and the
\* request reports success
ThreadDump(t) ==
    /\ th_pc[t] = "dump"
    /\ user_details' = th_users[t]
    /\ file_truncated' = FALSE
    /\ th_message' = [th_message EXCEPT ![t] = "created"]
    /\ th_pc' = [th_pc EXCEPT ![t] = "done"]
    /\ UNCHANGED <<th_request, th_users, session, OtherThanGui>>

InitThreads ==
    /\ PartsOff /\ Part3Idle /\ SplitIdle /\ BoxIdle /\ ExportIdle /\ AnnotIdle
    /\ ThreadsInit
NextThreads ==
    \E t \in Threads: ThreadLoad(t) \/ ThreadOpen(t) \/ ThreadDump(t)
SpecThreads == InitThreads /\ [][NextThreads]_vars


\* ---------------------------------------------------------------------------
\* The annotation tool: save_annotations of src/gui/mask_creator.py writes the
\* drawn shapes as GeoJSON and load_annotations of
\* src/hdf5_processing/annotations_to_landslides.py reads the file back.
\*
\* Python values are tagged records: None, str, int, list (a sequence of
\* values) and dict (a sequence of <<key, value>> pairs in insertion order,
\* the keys distinct). JSON values are tagged null, string, number, array and
\* object. json.dumps and json.load convert between the two.

PyNone == [t |-> "none"]
PyStr(s) == [t |-> "str", v |-> s]
PyInt(n) == [t |-> "int", v |-> n]
PyList(s) == [t |-> "list", v |-> s]
PyDict(pairs) == [t |-> "dict", v |-> pairs]

\* Python's truth value of an object: None, "", 0 and empty containers are
\* false
Truthy(x) ==
    IF x.t = "none" THEN FALSE
    ELSE IF x.t = "str" THEN x.v # ""
    ELSE IF x.t = "int" THEN x.v # 0
    ELSE x.v # << >>

\* dict.get(key, default)
Get(d, key, default) ==
    IF \E k \in DOMAIN d.v : d.v[k][1] = key
    THEN d.v[CHOOSE k \in DOMAIN d.v : d.v[k][1] = key][2]
    ELSE default

\* json.dumps: the JSON value written for a Python value
RECURSIVE json_dumps(_)
json_dumps(x) ==
    IF x.t = "none" THEN [j |-> "null"]
    ELSE IF x.t = "str" THEN [j |-> "string", v |-> x.v]
    ELSE IF x.t = "int" THEN [j |-> "number", v |-> x.v]
    ELSE IF x.t = "list"
    THEN [j |-> "array", v |-> [k \in DOMAIN x.v |-> json_dumps(x.v[k])]]
    ELSE [j |-> "object",
          v |-> [k \in DOMAIN x.v |-> <<x.v[k][1], json_dumps(x.v[k][2])>>]]

\* json.load: the Python value read for a JSON value
RECURSIVE json_load(_)
json_load(y) ==
    IF y.j = "null" THEN PyNone
    ELSE IF y.j = "string" THEN PyStr(y.v)
    ELSE IF y.j = "number" THEN PyInt(y.v)
    ELSE IF y.j = "array"
    THEN PyList([k \in DOMAIN y.v |-> json_load(y.v[k])])
    ELSE PyDict([k \in DOMAIN y.v |-> <<y.v[k][1], json_load(y.v[k][2])>>])

\* the geometries the edit control hands over: GeoJSON geometry objects
Point(x, y) ==
    PyDict(<< <<"type", PyStr("Point")>>,
              <<"coordinates", PyList(<<PyInt(x), PyInt(y)>>)>> >>)
Geoms == {Point(1, 2), Point(3, 4), Point(5, 6)}
\* a date picker holds an ISO date or None
Dates == {PyNone, PyStr("2024-01-01"), PyStr("2024-03-01")}
\* datetime.now().isoformat()
Created == PyStr("2024-05-01T10:00:00")

LandslideIdFromZero(idx) == idx

\* line 711: "landslide_id": idx + 1
LandslideId(idx) == idx + 1

\* lines 676-731: None when nothing was drawn, else the download whose
\* content is the GeoJSON text
save_annotations(roi, landslides, start, end) ==
    LET roi_feature ==
            PyDict(<< <<"type", PyStr("Feature")>>,
                      <<"properties",
                        PyDict(<< <<"class", PyStr("region_of_interest")>>,
                                  <<"label", PyInt(0)>> >>)>>,
                      <<"geometry", roi>> >>)
        landslide_feature(k) ==
            PyDict(<< <<"type", PyStr("Feature")>>,
                      <<"properties",
                        PyDict(<< <<"class", PyStr("landslide")>>,
                                  <<"label", PyInt(1)>>,
                                  <<"landslide_id",
                                    PyInt(LandslideId(k - 1))>> >>)>>,
                      <<"geometry", landslides.v[k]>> >>)
        features ==
            (IF Truthy(roi) THEN <<roi_feature>> ELSE << >>)
            \o (IF Truthy(landslides)
                THEN [k \in DOMAIN landslides.v |-> landslide_feature(k)]
                ELSE << >>)
        geojson ==
            PyDict(<< <<"type", PyStr("FeatureCollection")>>,
                      <<"metadata",
                        PyDict(<< <<"created", Created>>,
                                  <<"start_date", start>>,
                                  <<"end_date", end>>,
                                  <<"description",
                                    PyStr("Landslide annotations for ML training")>> >>)>>,
                      <<"features", PyList(features)>> >>)
    IN  IF ~Truthy(roi) /\ (~Truthy(landslides) \/ Len(landslides.v) = 0)
        THEN << >>
        ELSE <<json_dumps(geojson)>>

\* lines 27-67 of annotations_to_landslides.py
load_annotations(content) ==
    LET data == json_load(content)
        metadata == Get(data, "metadata", PyDict(<< >>))
        features == Get(data, "features", PyList(<< >>))
        class(f) == Get(Get(f, "properties", PyDict(<< >>)), "class", PyNone)
        rois ==
            SelectSeq(features.v,
                      LAMBDA f : class(f) = PyStr("region_of_interest"))
        slides ==
            SelectSeq(features.v,
                      LAMBDA f : /\ class(f) # PyStr("region_of_interest")
                                 /\ class(f) = PyStr("landslide"))
        entry(f) ==
            PyDict(<< <<"id", Get(Get(f, "properties", PyDict(<< >>)),
                                  "landslide_id", PyNone)>>,
                      <<"geometry", Get(f, "geometry", PyNone)>> >>)
    IN  PyDict(<< <<"metadata", metadata>>,
                  <<"roi_geometry",
                    IF rois = << >> THEN PyNone
                    ELSE Get(rois[Len(rois)], "geometry", PyNone)>>,
                  <<"landslide_geometries",
                    PyList([k \in DOMAIN slides |-> entry(slides[k])])>>,
                  <<"start_date", Get(metadata, "start_date", PyNone)>>,
                  <<"end_date", Get(metadata, "end_date", PyNone)>> >>)

OtherThanAnnot ==
    <<bvars, pvars, part3, splitvars, boxvars, exportvars, guivars>>

\* the lists of at most n geometries
RECURSIVE GeomLists(_)
GeomLists(n) ==
    IF n = 0 THEN {<< >>}
    ELSE GeomLists(n - 1)
         \cup {Append(s, g) : s \in {l \in GeomLists(n - 1) : Len(l) = n - 1},
                              g \in Geoms}

\* the stores and the date pickers when the save button is pressed
AnnotInit ==
    /\ an_pc = "draw"
    /\ roi_data \in {PyNone} \cup Geoms
    /\ landslide_data \in {PyList(s) : s \in GeomLists(MaxLandslides)}
    /\ start_date \in Dates
    /\ end_date \in Dates
    /\ download = << >>
    /\ loaded = << >>

\* the save button
SaveAnnotations ==
    /\ an_pc = "draw"
    /\ download' =
           save_annotations(roi_data, landslide_data, start_date, end_date)
    /\ an_pc' = "saved"
    /\ UNCHANGED <<roi_data, landslide_data, start_date, end_date, loaded,
                   OtherThanAnnot>>

\* load_annotations on the downloaded file
LoadAnnotations ==
    /\ an_pc = "saved"
    /\ download # << >>
    /\ loaded' = <<load_annotations(download[1])>>
    /\ an_pc' = "loaded"
    /\ UNCHANGED <<roi_data, landslide_data, start_date, end_date, download,
                   OtherThanAnnot>>

InitAnnot ==
    /\ PartsOff /\ Part3Idle /\ SplitIdle /\ BoxIdle /\ ExportIdle /\ GuiIdle
    /\ AnnotInit
NextAnnot == SaveAnnotations \/ LoadAnnotations
SpecAnnot == InitAnnot /\ [][NextAnnot]_vars

\* ================================================================ claims
\* the group layered by the last pass of the loop
LastGroup ==
    IF sensor = "S2" THEN DayMosaic(cands, dates_used[Len(dates_used)])
    ELSE Img(image_ids_used[Len(image_ids_used)])

\* number of candidate groups of the call
NGroups == IF sensor = "S2" THEN Len(dates_list) ELSE Len(cands)

\* candidate tiles of the k newest groups
NewestIds(k) ==
    IF sensor = "S2"
    THEN {cands[j]: j \in {x \in DOMAIN cands:
              \E g \in 1..k: dates_list[g] = Date(catalog[cands[x]].time)}}
    ELSE {cands[j]: j \in 1..k}

\* area of the geometry on which some tile of the k newest groups is valid
AreaOfNewest(k) ==
    Cardinality(UNION {catalog[t].foot: t \in NewestIds(k)} \cap geometry)
        * PixelArea

AtOrAbove(area) == area * 100 >= coverage_threshold * Cardinality(geometry) * PixelArea

\* C1: in both builders, a pixel that was valid in the composite before a
\* layering step keeps its value through the step; the older group changes
\* only pixels that were still missing.
C1_NewerPixelsKept ==
    prev_composite # None =>
        \A p \in Pix: prev_composite[p] # 0 => composite[p] = prev_composite[p]

\* an older group that is valid on an already set pixel and on a missing one
C1_Witness ==
    /\ prev_composite # None
    /\ \E p \in Pix: prev_composite[p] # 0 /\ LastGroup[p] # 0
    /\ \E q \in Pix: prev_composite[q] = 0 /\ composite[q] = LastGroup[q]
                       /\ composite[q] # 0

\* C2: the coverage values computed after each layering step of one call
\* never decrease.
C2_CoverageMonotone ==
    \A j, k \in DOMAIN cov_log: j < k => cov_log[j] <= cov_log[k]

C2_Witness ==
    /\ Len(cov_log) >= 2
    /\ cov_log[1] < cov_log[2]
    /\ cov_log[1] > 0

\* C3: the number of groups in a composite never exceeds the budget
\* (dates_used against max_days_to_composite, images_used against
\* max_images_to_composite).
C3_WithinBudget ==
    /\ sensor = "S2" => Len(dates_used) <= budget
    /\ sensor = "S1" => images_used <= budget /\ Len(dates_used) <= budget
    /\ result_meta # None => result_meta[1].images_used <= budget

\* the budget, not the catalog, ended the loop and a composite was returned
C3_Witness ==
    /\ pc = "done"
    /\ result_image # None
    /\ NGroups > budget
    /\ Len(dates_used) = budget

\* C4 as stated: once a step yields coverage >= coverage_threshold no further
\* group is layered (whatever require_full_coverage is).
C4_AlwaysStopsAtThreshold ==
    \A j \in 1..(Len(cov_log) - 1): ~AtOrAbove(cov_log[j])

\* C4 amended: coverage is computed once per layered group, and with
\* require_full_coverage enabled no group is layered after a step that
\* reached the threshold; a first group that covers the region is the only
\* one used.
C4_StopsAtThresholdWhenRequired ==
    /\ Len(cov_log) = Len(dates_used)
    /\ require_full_coverage =>
          \A j \in 1..(Len(cov_log) - 1): ~AtOrAbove(cov_log[j])
    /\ (require_full_coverage /\ pc = "done" /\ cov_log # << >>
          /\ AtOrAbove(AreaOfNewest(1))) => Len(dates_used) = 1

\* the newest group covers the region, older groups and budget remain
C4_Witness ==
    /\ pc = "done"
    /\ require_full_coverage
    /\ Len(dates_used) = 1
    /\ cov_log[1] = Cardinality(geometry) * PixelArea
    /\ NGroups >= 2 /\ budget >= 2

\* the loop ended, at least one group was layered, threshold not reached
EndedBelowThreshold ==
    /\ pc = "done"
    /\ Len(dates_used) >= 1
    /\ ~AtOrAbove(cov_log[Len(cov_log)])

\* C5 as stated: when the loop ends below the threshold with at least one
\* group layered, the builder returns the partial composite.
C5_PartialAlwaysReturned ==
    EndedBelowThreshold => result_image # None /\ result_image = composite

\* C5 amended: in that case the Sentinel-1 builder returns the partial
\* composite with metadata whose coverage is below the threshold; the
\* Sentinel-2 builder returns the partial composite only when
\* require_full_coverage is off and returns None when it is on.
C5_PartialReturnedUnlessS2Required ==
    EndedBelowThreshold =>
        /\ (sensor = "S2" /\ require_full_coverage) => result_image = None
        /\ (sensor = "S2" /\ ~require_full_coverage) =>
              result_image # None /\ result_image = composite
        /\ sensor = "S1" =>
              /\ result_image # None /\ result_image = composite
              /\ result_meta # None
              /\ ~AtOrAbove(result_meta[1].coverage)
              /\ result_meta[1].images_used = Len(dates_used)

\* a budget of one group where more are needed, in the Sentinel-2 builder
\* with require_full_coverage on
C5_Witness ==
    /\ EndedBelowThreshold
    /\ sensor = "S2" /\ require_full_coverage
    /\ budget = 1 /\ Len(dates_used) = 1
    /\ NGroups >= 2 /\ AtOrAbove(AreaOfNewest(2))

\* the call is over and the catalog query had returned no candidate
EndedWithoutCandidates == pc \in {"done", "raised"} /\ cands = << >>

\* C6 as stated: with zero candidates the result is None together with the
\* diagnostic reason "no_candidates".
C6_NoCandidatesReason ==
    EndedWithoutCandidates =>
        /\ result_image = None
        /\ result_meta = <<[reason |-> "no_candidates"]>>

\* C6 amended: with zero candidates the call returns None (Sentinel-2) or
\* (None, None) (Sentinel-1) with no diagnostic value, for every threshold,
\* budget and require_full_coverage, and no layering or coverage step runs.
C6_NoCandidatesNone ==
    EndedWithoutCandidates =>
        /\ pc = "done"
        /\ result_image = None
        /\ result_meta = None
        /\ composite = None
        /\ cov_log = << >>
        /\ dates_used = << >>

\* an empty query result although the catalog holds tiles
C6_Witness ==
    /\ EndedWithoutCandidates
    /\ Len(catalog) >= 2
    /\ budget >= 1

\* least k in 1..n whose newest k groups reach the threshold, else n
LeastCovering(n) ==
    IF \E k \in 1..n: AtOrAbove(AreaOfNewest(k))
    THEN CHOOSE k \in 1..n:
            /\ AtOrAbove(AreaOfNewest(k))
            /\ \A m \in 1..(k - 1): ~AtOrAbove(AreaOfNewest(m))
    ELSE n

\* C7: with require_full_coverage enabled a finished call has used
\* min(k*, B) groups, k* the least number of newest groups that reach the
\* threshold and B = min(budget, number of candidate groups).
C7_GroupsUsed ==
    (pc = "done" /\ require_full_coverage) =>
        Len(dates_used) = LeastCovering(Min(budget, NGroups))

\* the region split 50/50 between the two newest groups, threshold 0.95
C7_Witness ==
    /\ pc = "done" /\ require_full_coverage
    /\ coverage_threshold = 95
    /\ Len(dates_used) = 2
    /\ cov_log[1] * 2 = Cardinality(geometry) * PixelArea
    /\ cov_log[2] = Cardinality(geometry) * PixelArea

C9_AtMostMaxWorkers ==
    prog = "batch" => Cardinality(Running) <= max_workers

\* max_workers invocations run while a further feature waits in the queue
C9_Witness ==
    /\ prog = "batch"
    /\ Cardinality(Running) = max_workers
    /\ max_workers >= 2
    /\ work_queue # << >>

C11_OneResultPerFeature ==
    prog = "batch" =>
        /\ \A j, k \in DOMAIN results_log:
              results_log[j][1] = results_log[k][1] => j = k
        /\ completed + failed = Len(results_log)
        /\ \A k \in DOMAIN results_log:
              results_log[k][2] = (fut[results_log[k][1]] = "ok")
        /\ \A w1, w2 \in Running: witem[w1] = witem[w2] => w1 = w2
        /\ \A f \in Features:
              fut[f] = "running" <=> \E w \in Running: witem[w] = f
        /\ h5_files = {f \in Features: fut[f] = "ok"}
        /\ bpc = "done" =>
              /\ {results_log[k][1]: k \in DOMAIN results_log} = Features
              /\ completed + failed = n_features

\* a finished batch whose results arrived out of submission order, some
\* succeeded and some failed
C11_Witness ==
    /\ prog = "batch" /\ bpc = "done"
    /\ n_features >= 3
    /\ results_log[1][1] > results_log[2][1]
    /\ completed >= 1 /\ failed >= 1

\* groups layered so far
Layered == Len(dates_used)
\* the loop is at its head with budget and candidate groups left
Continuing == pc = "loop" /\ Layered < Min(budget, NGroups)
\* position in the call, counted in remaining steps
Rank ==
    CASE pc = "start" -> MaxBudget + MaxTiles + 3
      [] pc = "loop" -> MaxBudget + MaxTiles + 2 - Layered
      [] pc = "after" -> 1
      [] OTHER -> 0

\* the composite is valid exactly where a tile of the newest k groups is
BuiltFromNewest(k) ==
    IF k = 0 THEN composite = None
    ELSE /\ composite # None
         /\ Valid(composite) = UNION {catalog[t].foot: t \in NewestIds(k)}

\* C12 as stated: the loop goes on only while the coverage is below the
\* threshold, and budget and groups remain.
C12_LoopEndsAtThresholdAlways ==
    (Continuing /\ cov_log # << >>) => ~AtOrAbove(cov_log[Len(cov_log)])

\* C12 amended: every call ends (every step of a call lowers Rank, which
\* is never negative and is 0 only on return); the loop makes at most
\* min(budget, number of candidate groups) passes, each adding exactly the
\* next newest group; it ends exactly when the budget or the groups are
\* exhausted or, with require_full_coverage enabled, the coverage has
\* reached the threshold.
C12_CallTerminates ==
    /\ [](/\ Len(cov_log) <= Min(budget, NGroups)
          /\ Len(cov_log) = Layered
          /\ pc \in {"loop", "after", "done"} /\ cands # << >>
                => BuiltFromNewest(Layered)
          /\ pc = "loop" => i = Layered
          /\ (Continuing /\ cov_log # << >> /\ require_full_coverage)
                => ~AtOrAbove(cov_log[Len(cov_log)])
          /\ (pc \in {"after", "done"} /\ cands # << >>) =>
                \/ Layered = Min(budget, NGroups)
                \/ /\ require_full_coverage
                   /\ cov_log # << >>
                   /\ AtOrAbove(cov_log[Len(cov_log)]))
    /\ [](Rank >= 0 /\ (Rank = 0 <=> pc \in {"done", "raised"}))
    /\ [][Rank' < Rank]_vars

\* a call that ended because its budget of two groups was used up
C12_Witness ==
    /\ pc = "done"
    /\ Layered = 2 /\ budget = 2
    /\ ~AtOrAbove(cov_log[2])

\* what the k-th newest candidate group is recorded as in dates_used
GroupKey(k) ==
    IF sensor = "S2" THEN dates_list[k] ELSE catalog[cands[k]].time

\* the k-th layering step left the coverage as it was
NoOpStep(k) == k > 1 /\ cov_log[k] = cov_log[k - 1]

\* C13: a group whose layering leaves the coverage unchanged is still
\* recorded as used and takes one unit of the budget: after k layering
\* steps the used groups are exactly the k newest candidate groups, in
\* order, whether or not a step changed the coverage.
C13_NoOpGroupCounted ==
    /\ Len(dates_used) = Len(cov_log)
    /\ Len(cov_log) <= budget
    /\ \A k \in DOMAIN cov_log: dates_used[k] = GroupKey(k)
    /\ sensor = "S1" =>
          /\ images_used = Len(cov_log)
          /\ image_ids_used = SubSeq(cands, 1, Len(cov_log))
    /\ sensor = "S2" =>
          tiles_used = Cardinality(NewestIds(Len(cov_log)))

\* the last unit of the budget went to a group that changed nothing, and
\* the call ended below the threshold
C13_Witness ==
    /\ pc = "done" /\ budget = 2
    /\ Len(cov_log) = 2 /\ NoOpStep(2)
    /\ Len(dates_used) = 2
    /\ ~AtOrAbove(cov_log[2])

\* a fraction between 0.0 and 1.0 inclusive
InUnitInterval(c) == 0 <= c.valid_area /\ c.valid_area <= c.total_area

\* C14: the value check_coverage returns, and the value its callers report,
\* is a fraction between 0.0 and 1.0 inclusive.
C14_CoverageInUnitInterval ==
    /\ cc_pc \in {"returned", "reported"} => InUnitInterval(cc_coverage)
    /\ cc_pc = "reported" => InUnitInterval(cc_reported)

\* both the builder with budget 1 and the simple variant have returned
BothReturned == pc = "done" /\ simple_pc = "done" /\ budget = 1

\* C15 as stated: the builder with a budget of one group and the simple
\* variant return the same thing, nothing without candidates and the most
\* recent candidate otherwise.
C15_BudgetOneSameAsSimple ==
    BothReturned => result_image = simple_image

\* C15 amended: both return nothing when there are no candidates.
\* Otherwise the simple variants return the most recent candidate; so does
\* the Sentinel-1 builder with budget 1; the Sentinel-2 builder with budget 1
\* returns the mosaic of all candidates of the most recent date, which is
\* the most recent candidate when that date has no other candidate, and
\* returns None when require_full_coverage is enabled and the mosaic is
\* below the threshold.
C15_BudgetOneVsSimple ==
    BothReturned =>
        /\ simple_image = None <=> cands = << >>
        /\ cands = << >> => result_image = None
        /\ cands # << >> =>
              /\ simple_image = Img(cands[1])
              /\ sensor = "S1" => result_image = simple_image
              /\ sensor = "S2" =>
                    /\ result_image = None <=>
                          /\ require_full_coverage
                          /\ ~AtOrAbove(AreaOfNewest(1))
                    /\ result_image # None =>
                          /\ Valid(result_image) =
                                UNION {catalog[t].foot: t \in NewestIds(1)}
                          /\ NewestIds(1) = {cands[1]}
                                => result_image = simple_image

\* the most recent of two candidates, returned by both
C15_Witness ==
    /\ BothReturned
    /\ Len(cands) = 2
    /\ simple_image # None
    /\ result_image = simple_image

\* an input of ee_images_to_hdf5 the band checks reject
NoUsableBands ==
    \/ s1_avail = {}
    \/ s2_avail = {}
    \/ s1_bands # {} /\ \A b \in s1_bands: b \notin s1_avail
    \/ s2_bands # {} /\ \A b \in s2_bands: b \notin s2_avail

RECURSIVE HasDataset(_)
\* some entry of the file, at any depth, is a dataset
HasDataset(g) ==
    \E k \in DOMAIN g:
        \/ g[k].kind = "dataset"
        \/ g[k].kind = "group" /\ HasDataset(g[k].kids)

\* C16: ee_images_to_hdf5 given an image without bands, or a band request
\* of which nothing is available, raises ValueError before any download and
\* without creating the file; process_pair_improved given a file without a
\* dataset raises ValueError and writes no cleaned output.
C16_MalformedInputRaises ==
    /\ (script = "full" /\ hw_pc # "start" /\ NoUsableBands) =>
          /\ hw_pc = "raised" /\ hw_error = "ValueError"
          /\ downloads = 0
          /\ h5_out = << >>
    /\ (script = "full" /\ hw_pc = "raised" /\ hw_error = "ValueError") =>
          NoUsableBands
    /\ (script = "clean" /\ pp_pc # "start"
            /\ (~HasDataset(img_h5) \/ ~HasDataset(mask_h5))) =>
          /\ pp_pc = "raised" /\ pp_error = "ValueError"
          /\ out_files = {}
    /\ (script = "clean" /\ pp_pc = "raised") => out_files = {}

\* a band request that misses the image altogether
C16_Witness ==
    /\ script = "full" /\ hw_pc = "raised"
    /\ s1_avail # {} /\ s2_avail # {}
    /\ s1_bands # {} /\ s1_bands \cap s1_avail = {}
    /\ downloads = 0 /\ h5_out = << >>

\* the band names a writer is to store: the requested ones the image has,
\* or all bands of the image when none is requested
Selected(requested, available) ==
    IF requested # {} THEN {b \in requested: b \in available} ELSE available

\* C17: a file written by either writer has the two band groups and the
\* metadata group, in each band group one dataset per selected band name
\* and no other, and metadata with the scale, the coordinate system, both
\* band name lists and the source region.
C17_PackagedLayout ==
    h5_out # << >> =>
        LET f == h5_out[1]
        IN /\ f.groups = {"sentinel1", "sentinel2", "metadata"}
           /\ f.sentinel1 = Selected(s1_bands, s1_avail)
           /\ f.sentinel2 = Selected(s2_bands, s2_avail)
           /\ f.s1_bands = f.sentinel1
           /\ f.s2_bands = f.sentinel2
           /\ {"scale", "crs", "s1_bands", "s2_bands", "region"}
                 \subseteq f.attrs

\* C18: a catalog or statistics request that fails is not retried: no
\* further request is issued for that call, the builder returns no
\* composite, and quick_get_auckland_sentinel2 ends with None.
C18_CatalogErrorNotRetried ==
    /\ [](q_fail_at # 0 =>
            /\ q_calls = q_fail_at
            /\ q_pc \in {"except", "propagated", "done"}
            /\ q_result # "image"
            /\ (q_caller \in Quick /\ q_pc = "done") => q_result = "None")
    /\ []((q_caller \in Quick /\ q_pc = "done" /\ q_exc # "none")
            => q_result = "None")
    /\ [][q_fail_at # 0 => q_calls' = q_calls /\ q_fail_at' = q_fail_at]_vars

\* the second request of a call made by quick_get failed, with candidates
\* in the catalog
C18_Witness ==
    /\ q_caller \in Quick
    /\ q_dates > 0
    /\ q_fail_at = 2
    /\ q_pc = "done" /\ q_result = "None"

\* a Sentinel-2 call with require_full_coverage enabled has returned
S2RequiredReturned == pc = "done" /\ sensor = "S2" /\ require_full_coverage

\* valid area of an image inside the input geometry
AreaOf(img) == Cardinality(Valid(img) \cap geometry) * PixelArea

\* C19: with require_full_coverage enabled, an image returned by the
\* Sentinel-2 builder covers at least coverage_threshold of the geometry,
\* and a call in which no layering step reached the threshold returns None.
C19_ReturnedImageMeetsThreshold ==
    S2RequiredReturned =>
        /\ result_image # None => AtOrAbove(AreaOf(result_image))
        /\ (\A k \in DOMAIN cov_log: ~AtOrAbove(cov_log[k]))
              => result_image = None

\* the threshold is met only by the second group, and the composite of
\* both is returned
C19_Witness ==
    /\ S2RequiredReturned
    /\ result_image # None
    /\ Len(cov_log) = 2
    /\ ~AtOrAbove(cov_log[1]) /\ AtOrAbove(cov_log[2])

\* the Sentinel-2 query of an event finds no image
NoS2(row) ==
    \/ row.era = "pre2015"
    \/ row.era = "pre2017" /\ ~row.s2_toa
    \/ row.era = "post" /\ ~row.s2_sr /\ ~row.s2_toa
\* the Sentinel-1 query of an event finds no image
NoS1(row) == ~row.s1

\* the events the loop processes for which a query finds no image
WithoutImage(upto) ==
    {Label(k): k \in {j \in 1..upto: /\ Label(j) = OnlyIdx
                                     /\ NoS2(t_rows[j]) \/ NoS1(t_rows[j])}}

\* C20: pull_sentinel_data returns None whenever the Sentinel-2 or the
\* Sentinel-1 query finds no image; create_training_data then reports no
\* data for the event, starts no export for it and goes on to the next one.
C20_NoImageNoData ==
    /\ (t_pc \in {"pulled", "export", "crashed"}
            /\ (NoS2(t_rows[t_k]) \/ NoS1(t_rows[t_k])))
          => t_images = None
    /\ t_pc # "crashed"
    /\ t_pc \in {"loop", "done"} =>
          /\ WithoutImage(t_k - 1) \subseteq t_reported
          /\ WithoutImage(t_k - 1) \cap t_tasks = {}

\* the candidates of the call, as a set
Candidates == {cands[j]: j \in DOMAIN cands}

\* s is strictly descending / non-increasing
StrictlyDescending(s) == \A a, b \in DOMAIN s: a < b => s[a] > s[b]
NonIncreasing(s) == \A a, b \in DOMAIN s: a < b => s[a] >= s[b]

\* C21: groups are layered from the most recent to the oldest.  Sentinel-2:
\* dates_used is strictly descending (so it has no duplicates), every
\* candidate date at least as new as the oldest date used has been used,
\* and the tiles counted are exactly the candidates of the dates used, each
\* date being one group.  Sentinel-1: every pass takes one image that was
\* not taken before, dates_used holds the acquisition times of the images
\* taken, in non-increasing order, and no candidate left out is newer than
\* an image taken.
C21_NewestToOldest ==
    /\ (sensor = "S2" /\ pc \in {"loop", "done"} /\ cands # << >>) =>
          /\ StrictlyDescending(dates_used)
          /\ \A k \in Candidates:
                \/ \E j \in DOMAIN dates_used:
                      dates_used[j] = Date(catalog[k].time)
                \/ \A j \in DOMAIN dates_used:
                      dates_used[j] > Date(catalog[k].time)
          /\ tiles_used =
                Cardinality({k \in Candidates:
                    \E j \in DOMAIN dates_used:
                        dates_used[j] = Date(catalog[k].time)})
    /\ (sensor = "S1" /\ pc \in {"loop", "after", "done"} /\ cands # << >>) =>
          /\ Len(image_ids_used) = Len(dates_used)
          /\ \A j \in DOMAIN dates_used:
                /\ image_ids_used[j] \in Candidates
                /\ dates_used[j] = catalog[image_ids_used[j]].time
          /\ \A a, b \in DOMAIN image_ids_used:
                a # b => image_ids_used[a] # image_ids_used[b]
          /\ NonIncreasing(dates_used)
          /\ \A k \in Candidates:
                \/ \E j \in DOMAIN image_ids_used: image_ids_used[j] = k
                \/ \A j \in DOMAIN dates_used:
                      dates_used[j] >= catalog[k].time

\* a Sentinel-1 call that layered two images taken at different times
C21_Witness ==
    /\ sensor = "S1" /\ pc = "done"
    /\ Len(dates_used) = 2
    /\ dates_used[1] > dates_used[2]

\* the Sentinel-1 builder returned an image with its diagnostics
S1Returned == sensor = "S1" /\ pc = "done" /\ result_meta # None

\* C22: the diagnostics returned by the Sentinel-1 builder describe what
\* was layered: images_used is the number of passes of the loop and the
\* length of dates_used and of image_ids_used, is_composite is true
\* exactly when more than one image was used, and the coverage reported is
\* the coverage of the composite returned.
C22_DiagnosticsDescribeComposite ==
    S1Returned =>
        LET d == result_meta[1]
        IN /\ d.images_used = Len(cov_log)
           /\ d.images_used = Len(d.dates_used)
           /\ d.images_used = Len(d.image_ids_used)
           /\ d.is_composite <=> d.images_used > 1
           /\ d.coverage = AreaOf(result_image)
           /\ result_image =
                 Mosaic([j \in 1..d.images_used |->
                     Img(d.image_ids_used[d.images_used + 1 - j])])

\* a composite of two images returned after the threshold was reached
C22_Witness ==
    /\ S1Returned
    /\ result_meta[1].is_composite
    /\ require_full_coverage
    /\ AtOrAbove(result_meta[1].coverage)

\* pixel (px, py) lies in the window of file f
Holds(f, px, py) ==
    /\ f.x <= px /\ px < f.x + f.w
    /\ f.y <= py /\ py < f.y + f.h

\* split_tiff did not copy the image but split it
WasSplit ==
    /\ sp_pc \in {"loop", "done"}
    /\ ~(sp_width <= max_patch_size /\ sp_height <= max_patch_size)

\* C23: when split_tiff splits an image, the windows written are pairwise
\* disjoint and lie inside the image; once it has returned there are
\* num_cols * num_rows of them, every pixel of the image lies in exactly
\* one, every window outside the last column (row) is patch_width wide
\* (patch_height high) and the last column (row) takes the remainder.
C23_WindowsTileImage ==
    WasSplit =>
        LET patch_width == sp_config[1]
            patch_height == sp_config[2]
            num_cols == sp_config[3]
            num_rows == sp_config[4]
            n == Len(output_paths)
        IN /\ \A a \in 1..n:
                /\ output_paths[a].kind = "patch"
                /\ output_paths[a].w > 0 /\ output_paths[a].h > 0
                /\ output_paths[a].x >= 0 /\ output_paths[a].y >= 0
                /\ output_paths[a].x + output_paths[a].w <= sp_width
                /\ output_paths[a].y + output_paths[a].h <= sp_height
           /\ \A a, b \in 1..n:
                a # b => \A px \in 0..(sp_width - 1), py \in 0..(sp_height - 1):
                    ~(Holds(output_paths[a], px, py)
                        /\ Holds(output_paths[b], px, py))
           /\ sp_pc = "done" =>
                /\ n = num_cols * num_rows
                /\ \A px \in 0..(sp_width - 1), py \in 0..(sp_height - 1):
                      Cardinality({a \in 1..n:
                          Holds(output_paths[a], px, py)}) = 1
                /\ \A a \in 1..n:
                      LET f == output_paths[a]
                      IN /\ f.col \in 0..(num_cols - 1)
                         /\ f.row \in 0..(num_rows - 1)
                         /\ f.w = IF f.col < num_cols - 1 THEN patch_width
                                  ELSE sp_width - (num_cols - 1) * patch_width
                         /\ f.h = IF f.row < num_rows - 1 THEN patch_height
                                  ELSE sp_height - (num_rows - 1) * patch_height

\* an image split into two columns and two rows whose last column is wider
\* than the others
C23_Witness ==
    /\ WasSplit /\ sp_pc = "done"
    /\ Len(output_paths) = 4
    /\ \E a \in 1..Len(output_paths): output_paths[a].w > sp_config[1]

\* C24: every file split_tiff writes, the copy of a small image or a patch
\* of a split one, is at most max_patch_size pixels wide and high.
C24_WithinMaxPatchSize ==
    \A a \in 1..Len(output_paths):
        /\ output_paths[a].w <= max_patch_size
        /\ output_paths[a].h <= max_patch_size

\* width, height and twice the centre of a box, in exact arithmetic
WidthOf(b) == b[3] - b[1]
HeightOf(b) == b[4] - b[2]
Centre2(b) == <<b[1] + b[3], b[2] + b[4]>>

WithinSizes(b) ==
    /\ min_size <= WidthOf(b) /\ WidthOf(b) <= max_size
    /\ min_size <= HeightOf(b) /\ HeightOf(b) <= max_size

\* C25 as stated: the box returned has width and height in
\* [min_size, max_size] and the centre of the input box, it is the input
\* box when that already satisfies the bounds, and applying the function
\* twice gives the same box as applying it once.
C25_ConstrainedExactly ==
    /\ bx_pc \in {"once", "twice"} =>
          /\ WithinSizes(bx_once)
          /\ Centre2(bx_once) = Centre2(bbox_geom)
          /\ WithinSizes(bbox_geom) => bx_once = bbox_geom
    /\ bx_pc = "twice" => bx_twice = bx_once

\* min_size or max_size, whichever a size has to be moved to
Clamped(size) ==
    IF size < min_size THEN min_size
    ELSE IF size > max_size THEN max_size
    ELSE size

\* one step of the floating-point numbers at the magnitude of the
\* coordinates of one axis of the input box
TolX == Ulp(Abs(bbox_geom[1]) + Abs(bbox_geom[3]) + max_size)
TolY == Ulp(Abs(bbox_geom[2]) + Abs(bbox_geom[4]) + max_size)

Near(x, y, tol) == Abs(x - y) <= tol

\* no sum or difference formed along the axis from lo to hi is rounded
RoundingFree(lo, hi) ==
    LET s == lo + hi
        half == Clamped(hi - lo) \div 2
    IN /\ Fl(hi - lo) = hi - lo
       /\ Fl(s) = s
       /\ Fl(s \div 2 - half) = s \div 2 - half
       /\ Fl(s \div 2 + half) = s \div 2 + half

\* C25, amended: for min_size <= max_size the statement holds up to one
\* rounding step of the coordinates: width and height of the box returned
\* lie within one step of [min_size, max_size], its centre within one step
\* of the centre of the input box, a box that already satisfies the bounds
\* comes back with every coordinate within one step, and so does the box
\* returned when the function is applied again.  Where no sum or
\* difference is rounded the statement holds exactly.
C25_ConstrainedUpToRounding ==
    (bx_pc \in {"once", "twice"} /\ min_size <= max_size) =>
        /\ min_size - TolX <= WidthOf(bx_once)
        /\ WidthOf(bx_once) <= max_size + TolX
        /\ min_size - TolY <= HeightOf(bx_once)
        /\ HeightOf(bx_once) <= max_size + TolY
        /\ Near(Centre2(bx_once)[1], Centre2(bbox_geom)[1], 2 * TolX)
        /\ Near(Centre2(bx_once)[2], Centre2(bbox_geom)[2], 2 * TolY)
        /\ WithinSizes(bbox_geom) =>
              /\ Near(bx_once[1], bbox_geom[1], TolX)
              /\ Near(bx_once[3], bbox_geom[3], TolX)
              /\ Near(bx_once[2], bbox_geom[2], TolY)
              /\ Near(bx_once[4], bbox_geom[4], TolY)
        /\ bx_pc = "twice" =>
              /\ Near(bx_twice[1], bx_once[1], TolX)
              /\ Near(bx_twice[3], bx_once[3], TolX)
              /\ Near(bx_twice[2], bx_once[2], TolY)
              /\ Near(bx_twice[4], bx_once[4], TolY)
        /\ (/\ RoundingFree(bbox_geom[1], bbox_geom[3])
            /\ RoundingFree(bbox_geom[2], bbox_geom[4])) =>
              C25_ConstrainedExactly

\* a box too wide and too low whose constrained box, after rounding, is
\* outside the bounds, applied twice
C25_Witness ==
    /\ bx_pc = "twice" /\ min_size < max_size
    /\ WidthOf(bbox_geom) > max_size
    /\ HeightOf(bbox_geom) < min_size
    /\ ~WithinSizes(bx_once)

\* the export tasks of a kind started so far, by patch index
Started(kind) ==
    {e_tasks[j][2]: j \in {x \in DOMAIN e_tasks: e_tasks[x][1] = kind}}

\* the patch of row k has Sentinel data, a landslide in its region and a
\* mask with a landslide pixel
Exportable(k) ==
    LET r == e_rows[k]
    IN /\ r.era # "pre2015"
       /\ r.s1
       /\ IF r.era = "pre2017" THEN r.s2_toa ELSE r.s2_sr \/ r.s2_toa
       /\ r.intersects
       /\ r.mask_max # 0

\* C26: an image export is started for a patch only after the mask export
\* of the same patch was started and create_mask returned True for it; a
\* patch without Sentinel data, without an intersecting landslide or with
\* an all-zero mask starts no image export; no task is started twice.
C26_ImageAfterMask ==
    /\ [](/\ \A j \in DOMAIN e_tasks:
                e_tasks[j][1] = "image" =>
                    /\ j > 1
                    /\ e_tasks[j - 1] = <<"mask", e_tasks[j][2]>>
                    /\ \E k \in DOMAIN e_rows:
                          Idx(k) = e_tasks[j][2] /\ Exportable(k)
          /\ \A a, b \in DOMAIN e_tasks: a # b => e_tasks[a] # e_tasks[b]
          /\ Started("image") \subseteq Started("mask"))
    /\ [][e_tasks' # e_tasks /\ e_tasks'[Len(e_tasks')][1] = "image"
            => has_landslide /\ e_pc = "masked"]_vars

\* two patches: the first without an intersecting landslide, the second
\* exported with its mask
C26_Witness ==
    /\ e_pc = "done" /\ Len(e_rows) = 2
    /\ pull_sentinel_data_2(e_rows[1]) # None /\ ~e_rows[1].intersects
    /\ e_tasks = <<<<"mask", 1>>, <<"image", 1>>>>

\* C27: in one session, whatever callbacks have run, login-status is True
\* only if current-user is a user of the user file whose stored password
\* is the password submitted in the login that set it; current-user is
\* None whenever login-status is False; and once display_page has run for
\* the last write to login-status, the map page is shown only if
\* login-status is True.
C27_LoggedInOnlyWithPassword ==
    /\ login_status =>
          /\ current_user \in DOMAIN user_details
          /\ user_details[current_user].password = login_password
    /\ ~login_status => current_user = ""
    /\ (~display_pending /\ page_content = "map") => login_status

\* bob, one of two users, is logged in and sees the map page
C27_Witness ==
    /\ login_status /\ current_user = "bob"
    /\ page_content = "map" /\ ~display_pending
    /\ DOMAIN user_details = {"alice", "bob"}

\* a creation request that the claim calls rejected
Rejected(r, users) ==
    \/ r.username = "" \/ r.password = ""
    \/ r.project = ""
    \/ r.username \in DOMAIN users

\* C28: a step of handle_action for a rejected account creation (missing
\* username, password or project, or a username that is in the file)
\* leaves the user file and mode-store unchanged and logs nobody in; the
\* file changes only in a creation that is not rejected, which adds the new
\* user with the submitted password and project, keeps every other user as
\* it was and sets mode-store to "login"; no other step of handle_action
\* changes mode-store, and no other callback changes the file.
C28_RejectedCreationChangesNothing ==
    /\ [][last_request' # << >> =>
             LET r == last_request'[1]
                 created == /\ r.n_clicks > 0 /\ r.mode = "create"
                            /\ ~Rejected(r, user_details)
             IN /\ (r.n_clicks > 0 /\ r.mode = "create"
                        /\ Rejected(r, user_details)) =>
                      /\ user_details' = user_details
                      /\ mode_store' = mode_store
                      /\ ~login_status' /\ current_user' = ""
                /\ user_details' # user_details =>
                      /\ created
                      /\ DOMAIN user_details' =
                            DOMAIN user_details \cup {r.username}
                      /\ user_details'[r.username] =
                            [password |-> r.password, ee_project |-> r.project]
                      /\ \A u \in DOMAIN user_details:
                            user_details'[u] = user_details[u]
                      /\ mode_store' = "login"
                      /\ ~login_status'
                /\ mode_store' # mode_store =>
                      created /\ user_details' # user_details]_vars
    /\ [][last_request' = << >> => user_details' = user_details]_vars

\* a creation was refused for a username that is in the file, submitted
\* with a password that is not the stored one
C28_Witness ==
    /\ last_request # << >>
    /\ last_request[1].mode = "create"
    /\ last_request[1].username \in DOMAIN user_details
    /\ last_request[1].password # ""
    /\ last_request[1].password
           # user_details[last_request[1].username].password
    /\ message_store = "username exists"

\* C29: when two concurrent account creations with distinct new usernames
\* have both reported success, both usernames are in the user file.
C29_NoLostUpdate ==
    (/\ \A t \in DOMAIN th_pc: th_pc[t] = "done" /\ th_message[t] = "created"
     /\ DOMAIN th_pc # {}
     /\ th_request[1].username # th_request[2].username) =>
        /\ ~file_truncated
        /\ th_request[1].username \in DOMAIN user_details
        /\ th_request[2].username \in DOMAIN user_details


\* ---------------------------------------------------------------------------
\* C30: saving and loading annotations is a round trip. Once the saved file
\* has been loaded, the loaded ROI geometry is the stored one (None when there
\* was none), the loaded landslides are the stored geometries in the stored
\* order with ids 1..n, and the loaded dates are the ones of the date
\* pickers; after a save with at least one annotation there is a download,
\* and with no ROI and no landslides there is none.
Annotated == roi_data # PyNone \/ Len(landslide_data.v) > 0
LoadedSlides == Get(loaded[1], "landslide_geometries", PyNone).v
C30_RoundTrip ==
    /\ an_pc \in {"saved", "loaded"} => (download # << >> <=> Annotated)
    /\ an_pc = "loaded" =>
        /\ Get(loaded[1], "roi_geometry", PyStr("absent")) = roi_data
        /\ Len(LoadedSlides) = Len(landslide_data.v)
        /\ \A k \in DOMAIN LoadedSlides :
            /\ Get(LoadedSlides[k], "geometry", PyNone) = landslide_data.v[k]
            /\ Get(LoadedSlides[k], "id", PyNone) = PyInt(k)
        /\ Get(loaded[1], "start_date", PyStr("absent")) = start_date
        /\ Get(loaded[1], "end_date", PyStr("absent")) = end_date

\* an ROI, two landslides with the same geometry as each other and a start
\* date but no end date were saved and loaded
C30_Witness ==
    /\ an_pc = "loaded"
    /\ roi_data # PyNone
    /\ Len(landslide_data.v) = 2
    /\ landslide_data.v[1] = landslide_data.v[2]
    /\ start_date # PyNone
    /\ end_date = PyNone

====
